---- MODULE Spec2Model ----
(***************************************************************************)
(* Ingestion pipeline of the commodity trade-intelligence backend:         *)
(* record store, harvest engine, bootstrap harvest, budget tracker,        *)
(* auto-paginator, rate-limited client, token manager and analytics.        *)
(*                                                                         *)
(* The module holds several specifications over one set of variables; each *)
(* specification moves the variables of one subsystem and leaves the       *)
(* others at their initial values:                                         *)
(*   Spec        record store + harvest engines + dispatch handlers        *)
(*   SpecTracker the budget tracker under any sequence of its operations   *)
(*   SpecBoot    the bootstrap harvest over a catalog larger than the      *)
(*               harvest budget, with the UTC day changing under it        *)
(*   SpecPages   one trade_shipment_all call against any upstream paging   *)
(*   SpecClient  one handler's calls through its client: interval wait,    *)
(*               token, attempts, backoff, with the clock running          *)
(*   SpecToken   handlers sharing the token manager, answered 200 or 401   *)
(*   SpecWaiters the same with three handlers                              *)
(*   SpecInFlight  handlers with a client each, every request answered 200 *)
(*   SpecFallback  one _fetch_with_date_fallback call, any upstream error *)
(*   SpecRetry   one _request call observed attempt by attempt             *)
(*   SpecRefresh one handler's calls with a failing OAuth endpoint         *)
(*   SpecJobs    one run_all_jobs call over any fetched items              *)
(*   SpecNormalize  normalize called twice on one raw record               *)
(*   SpecStore   store_records called with a batch and called again        *)
(*   SpecPrice   the quantity and price steps of normalize on one record   *)
(*   SpecMedian  one _weighted_median call on any short list               *)
(*   SpecFvi     one compute_seasonally_adjusted call                      *)
(*   SpecShares  one compute_market_shares call                            *)
(*   SpecHarvest the harvests' jobs, page request by page request          *)
(*   SpecSearch  concurrent counterparty_search requests                   *)
(*   SpecRetryLive  SpecRetry with an event loop that keeps running        *)
(***************************************************************************)
EXTENDS Integers, Sequences, FiniteSets, TLC

VARIABLES
    \* ---- upstream provider (environment)
    upstream,               \* the shipments the provider holds (unchanged data)
    now,                    \* wall clock, seconds
    \* ---- api/routes/intelligence.py
    record_store,           \* _record_store: hct_id -> sequence of canonical records
    \* ---- main.py: _initial_harvest (its engine lives as long as the task)
    HARVEST_JOBS,           \* the job catalog
    bootSeen,               \* engine.seen_record_ids of the bootstrap engine
    bootPhase,              \* 1 = india_p1 loop, 2 = other_p1 loop, 3 = finished
    bootIdx,                \* position in the current phase's job list
    bootPc,                 \* "next" | "sleep" | "check" | "running" | "done"
    \* ---- core/budget.py: APIBudgetTracker (process singleton)
    budget,                 \* [calls_today, harvest_calls_today, search_calls_today, day_key]
    today,                  \* the UTC day of the wall clock (_current_day_key())
    \* ---- history (not program state)
    lastOp,                 \* the operation of the last step; for run_harvest of a
                            \* named job also the job and whether its fetch worked
    normCount,              \* dedup key -> times passed to the normalizer, process-wide
    engineNormCount,        \* engine -> dedup key -> times that engine normalized it
    engineMet,              \* engine -> dedup key -> times that engine fetched it
    bootLog,                \* what the bootstrap did with the job it handled last
    \* ---- core/eximpedia/client.py: trade_shipment_all (one call)
    pager,                  \* [pc, page, total_expected, all_records] + history
    \* ---- core/eximpedia: request tasks, each with its own EximpediaClient
    tasks,                  \* the request tasks of the process
    task,                   \* task -> the locals and position of its _request call
    client,                 \* task -> its client's [semaphore, last_request_time]
    tm,                     \* EximpediaTokenManager singleton: token, expiry, _refresh_lock
    issued,                 \* tokens the OAuth endpoint has issued (environment)
    elapsed,                \* history: clock advances and upstream faults so far
    tokenLog,               \* history: invalidate() calls, and when each token was cached
    \* ---- core/harvester/engine.py: _fetch_with_date_fallback (one call)
    fallback,               \* [pc, start, end, status] + history of the ranges queried
    \* ---- core/harvester/engine.py: run_all_jobs (one call)
    runner,                 \* [pc, jobs, idx, seen, results] + history of what was fetched
    \* ---- core/normalization/pipeline.py: normalize called on one raw record
    normalizer,             \* [raw, trade_type, trade_country] + history of the outputs
    \* ---- api/routes/intelligence.py: history of the store_records calls
    storeLog,               \* the latest call's arguments and the store it left
    \* ---- pure functions of the analytics and the price steps of normalize
    call,                   \* [fn, args, result] of the one call observed
    \* ---- api/routes/intelligence.py: concurrent counterparty_search requests
    searchers,              \* each request's position and what the upstream saw
    \* ---- main.py, api/routes/data.py: the harvests' jobs, page request by page request
    harvester               \* [pc, kind] of the job running + the page requests of the day

storeVars == <<upstream, now, record_store, HARVEST_JOBS, bootSeen, bootPhase,
               bootIdx, bootPc, budget, today, lastOp, normCount,
               engineNormCount, engineMet, bootLog>>

extraVars == <<fallback, runner, normalizer, storeLog, call, searchers, harvester>>

netVars == <<pager, tasks, task, client, tm, issued, elapsed, tokenLog, extraVars>>

vars == <<storeVars, netVars>>

(***************************************************************************)
(* Bounds                                                                  *)
(***************************************************************************)
MaxStored == 3       \* records kept per hct_id (handlers that would exceed it are cut off)
MaxBatch == 2        \* records in one store_records batch
MaxTime == 1         \* single seconds of wall clock that pass between events
MaxTokens == 5       \* tokens the OAuth endpoint issues
MaxIdle == 1         \* long idle periods (a token's validity) that pass
StartTime == 5       \* wall clock at process start, seconds
MaxPageRecs == 2     \* records on one page
MaxTotal == 3        \* largest total a response reports
MaxJobRecs == 2      \* raw records the upstream returns for one job of run_all_jobs
MaxClock == 2        \* seconds that pass in the normalizer's specification
MaxDate == 3         \* days on the calendar of the date-fallback specification
MaxFaults == 4       \* responses other than 200, transport errors and failed refreshes
NumTokenTasks == 2   \* request tasks that share the token manager
NumClients == 6      \* clients in use at the same time
MaxDay == 1          \* UTC day changes
MaxCalls == 3        \* calls recorded by direct tracker operations
NumBootJobs == 62    \* priority-1 jobs of the large catalog (more than HARVEST_BUDGET)

(***************************************************************************)
(* Python values                                                           *)
(***************************************************************************)
None == "None"                       \* None, or a key the dict lacks (.get -> None)
Truthy(v) == v # None /\ v # ""      \* truthiness of a str-or-None value
PyOr(a, b) == IF Truthy(a) THEN a ELSE b      \* a or b

SeqsUpTo(S, n) == UNION {[1..k -> S] : k \in 0..n}

(***************************************************************************)
(* Raw records and the taxonomy                                            *)
(***************************************************************************)
DeclNos == {None, "D1"}
ItemNos == {"1", "2"}
HsCodes == {"08013100", "15111000", "99999999"}

Raw(decl, item, hs) == [DECLARATION_NO |-> decl, ITEM_NO |-> item, HS_CODE |-> hs]

\* the shipments the provider may hold: two line items of one declaration, a
\* record without DECLARATION_NO, and a record of an HS code outside the taxonomy
AllShipments ==
    << Raw("D1", "1", "08013100"), Raw("D1", "2", "08013100"),
       Raw(None, "1", "08013100"), Raw(None, "2", "99999999") >>

Prefixes(s) == {SubSeq(s, 1, k) : k \in 0..Len(s)}

\* the data sets the provider starts with: nothing, the two line items of one
\* declaration, or all four shipments
Upstreams == {p \in Prefixes(AllShipments) : Len(p) \in {0, 2, 4}}

HctIds == {"HCT-0801-RCN-INSHELL", "HCT-1511-PALMOIL"}

\* classify_by_hs_code: prefix match against the taxonomy's hs_mappings
classify_by_hs_code(hs) ==
    CASE hs = "08013100" -> "HCT-0801-RCN-INSHELL"
      [] hs = "15111000" -> "HCT-1511-PALMOIL"
      [] OTHER -> None

(***************************************************************************)
(* NormalizationPipeline.normalize: the fields the store and dedup read    *)
(***************************************************************************)
normalize(raw, trade_type, trade_country, at) ==
    [record_id |-> raw.DECLARATION_NO,
     declaration_no |-> raw.DECLARATION_NO,
     trade_type |-> trade_type,
     trade_country |-> trade_country,
     hs_code |-> raw.HS_CODE,
     hct_id |-> classify_by_hs_code(raw.HS_CODE),
     normalized_at |-> at]

(***************************************************************************)
(* store_records                                                           *)
(***************************************************************************)
\* seen_ids = {r["record_id"] for r in existing if r.get("record_id")}
StoreSeenIds(existing) ==
    {existing[i].record_id : i \in {k \in 1..Len(existing) : Truthy(existing[k].record_id)}}

\* new = [r for r in records if r.get("record_id") not in seen_ids]
StoreNew(records, seen_ids) ==
    SelectSeq(records, LAMBDA r : r.record_id \notin seen_ids)

\* a store_records that puts the new records first (variant; C19 must fail
\* with it)
store_records_prepends(store, hct_id, records) ==
    LET existing == store[hct_id]
        seen_ids == StoreSeenIds(existing)
    IN  [store EXCEPT ![hct_id] = StoreNew(records, seen_ids) \o existing]

store_records(store, hct_id, records) ==
    LET existing == store[hct_id]
        seen_ids == StoreSeenIds(existing)
    IN  [store EXCEPT ![hct_id] = existing \o StoreNew(records, seen_ids)]

\* the callers' loop: for record in normalized_records:
\*                        if record.get("hct_id"): store_records(hct_id, [record])
RECURSIVE StoreEach(_, _)
StoreEach(store, records) ==
    IF records = <<>> THEN store
    ELSE LET r == Head(records)
         IN  StoreEach(IF Truthy(r.hct_id) THEN store_records(store, r.hct_id, <<r>>)
                       ELSE store,
                       Tail(records))

(***************************************************************************)
(* HarvestEngine.run_job                                                   *)
(***************************************************************************)
\* rid = f"{decl}:{item}" if decl else None   (a pair stands for the joined string)
NoRid == <<>>
DedupKey(r) ==
    LET decl == PyOr(r.DECLARATION_NO, "")
        item == PyOr(r.ITEM_NO, "")
    IN  IF Truthy(decl) THEN <<decl, item>> ELSE NoRid

DedupKeys == {<<d, i>> : d \in {x \in DeclNos : Truthy(x)}, i \in ItemNos}

\* a seen set that records nothing (variant; C3 must fail with it)
MarkSeenForgets(seen, rid) == seen

MarkSeen(seen, rid) == seen \cup {rid}        \* self.seen_record_ids.add(rid)

RECURSIVE DedupLoop(_, _, _)
DedupLoop(raws, seen, unique) ==
    IF raws = <<>> THEN [unique |-> unique, seen |-> seen]
    ELSE LET r == Head(raws)
             rid == DedupKey(r)
         IN  IF rid # NoRid /\ rid \notin seen
                 THEN DedupLoop(Tail(raws), MarkSeen(seen, rid), Append(unique, r))
             ELSE IF rid = NoRid
                 THEN DedupLoop(Tail(raws), seen, Append(unique, r))
             ELSE DedupLoop(Tail(raws), seen, unique)

NormalizeAll(raws, job, at) ==
    [i \in 1..Len(raws) |-> normalize(raws[i], job.trade_type, job.trade_country, at)]

\* what the provider returns for the job's query (all pages, in order): `upstream`
\* is the provider's INDIA IMPORT data set, its other data sets are empty
FetchAll(job) ==
    IF job.trade_country = "INDIA" /\ job.trade_type = "IMPORT"
    THEN SelectSeq(upstream, LAMBDA r : r.HS_CODE \in job.hs_codes)
    ELSE <<>>

\* run_job on an engine whose seen set is `seen`; fetched = FALSE when the
\* fetch raised (summary FAILED, nothing deduplicated or normalized)
run_job(job, seen, fetched, at) ==
    IF ~fetched
    THEN [status |-> "FAILED", seen |-> seen, raw |-> <<>>, unique |-> <<>>,
          normalized_records |-> <<>>]
    ELSE LET d == DedupLoop(FetchAll(job), seen, <<>>)
         IN  [status |-> "SUCCESS", seen |-> d.seen, raw |-> FetchAll(job),
              unique |-> d.unique,
              normalized_records |-> NormalizeAll(d.unique, job, at)]

(***************************************************************************)
(* History of normalizer calls                                             *)
(***************************************************************************)
Engines == {"bootstrap", "request"}    \* "request": the engine of the latest request
NoCounts == [k \in DedupKeys |-> 0]
Bump(n) == IF n < 2 THEN n + 1 ELSE 2  \* counts saturate at 2 ("more than once")

RECURSIVE CountKeys(_, _)
CountKeys(raws, counts) ==
    IF raws = <<>> THEN counts
    ELSE LET k == DedupKey(Head(raws))
         IN  CountKeys(Tail(raws),
                       IF k = NoRid THEN counts
                       ELSE [counts EXCEPT ![k] = Bump(counts[k])])

(***************************************************************************)
(* core/budget.py                                                          *)
(***************************************************************************)
DAILY_LIMIT == 100
HARVEST_BUDGET == 60
SEARCH_BUDGET == 40

\* _maybe_reset with key = _current_day_key()
maybe_reset(b, key) ==
    IF key # b.day_key
    THEN [calls_today |-> 0, harvest_calls_today |-> 0, search_calls_today |-> 0,
          day_key |-> key]
    ELSE b

record_call(b, key, call_type) ==
    LET r == maybe_reset(b, key)
    IN  IF call_type = "harvest"
        THEN [r EXCEPT !.calls_today = @ + 1, !.harvest_calls_today = @ + 1]
        ELSE [r EXCEPT !.calls_today = @ + 1, !.search_calls_today = @ + 1]

\* a budget check that never refuses (variant; C9 must fail with it)
can_harvest_always(b, key) == [budget |-> maybe_reset(b, key), ok |-> TRUE]

\* can_harvest / can_search: the tracker after the call, and the answer
can_harvest(b, key) ==
    LET r == maybe_reset(b, key)
    IN  [budget |-> r, ok |-> r.harvest_calls_today < HARVEST_BUDGET]

can_search(b, key) ==
    LET r == maybe_reset(b, key)
    IN  [budget |-> r, ok |-> r.search_calls_today < SEARCH_BUDGET]

\* the status property: resets, then reads
status(b, key) == maybe_reset(b, key)

\* update_from_token: consumed = daily.get("consumed_daily_limit_api", 0)
update_from_token(b, consumed) ==
    IF consumed > b.calls_today THEN [b EXCEPT !.calls_today = consumed] ELSE b

(***************************************************************************)
(* The job catalog (app/data/harvest_configs.py) and the taxonomy's        *)
(* HS codes per commodity                                                  *)
(***************************************************************************)
Job(name, priority, trade_type, trade_country, hs_codes) ==
    [name |-> name, priority |-> priority, trade_type |-> trade_type,
     trade_country |-> trade_country, hs_codes |-> hs_codes]

SmallCatalog ==
    << Job("india_rcn_import", 1, "IMPORT", "INDIA", {"08013100"}),
       Job("india_nuts_import", 2, "IMPORT", "INDIA", {"08013100", "99999999"}),
       Job("vietnam_rcn_import", 1, "IMPORT", "VIETNAM", {"08013100"}) >>

JobNames(catalog) == {catalog[i].name : i \in 1..Len(catalog)}

CommodityHs(hct_id) ==
    CASE hct_id = "HCT-0801-RCN-INSHELL" -> {"08013100"}
      [] hct_id = "HCT-1511-PALMOIL" -> {"15111000"}
      [] OTHER -> {}

\* TAXONOMY.items() order
TaxonomyOrder == <<"HCT-0801-RCN-INSHELL", "HCT-1511-PALMOIL">>

SEARCH_COUNTRIES == <<"INDIA", "VIETNAM", "IVORY COAST", "GHANA", "NIGERIA">>

\* the ad-hoc jobs of harvest_by_commodity_name: top 5 countries x IMPORT, EXPORT
AdHocJobs(hct_id) ==
    [i \in 1..10 |->
        Job("search", 99, IF i % 2 = 1 THEN "IMPORT" ELSE "EXPORT",
            SEARCH_COUNTRIES[(i + 1) \div 2], CommodityHs(hct_id))]

(***************************************************************************)
(* A request's engine running a list of jobs and storing the results.      *)
(* acc = [seen, store, norm, eng, met]; failAt: the job whose fetch raises *)
(* (0: none); storeEmpty = FALSE is the ad-hoc branch, which stores only   *)
(* results with normalized_count > 0 (the same store either way).          *)
(***************************************************************************)
RECURSIVE RunJobs(_, _, _, _, _)
RunJobs(jobs, i, failAt, at, acc) ==
    IF i > Len(jobs) THEN acc
    ELSE LET res == run_job(jobs[i], acc.seen, i # failAt, at)
         IN  RunJobs(jobs, i + 1, failAt, at,
                     [seen |-> res.seen,
                      store |-> IF res.status = "SUCCESS"
                                THEN StoreEach(acc.store, res.normalized_records)
                                ELSE acc.store,
                      norm |-> CountKeys(res.unique, acc.norm),
                      eng |-> CountKeys(res.unique, acc.eng),
                      met |-> CountKeys(res.raw, acc.met)])

FreshEngine ==
    [seen |-> {}, store |-> record_store, norm |-> normCount, eng |-> NoCounts,
     met |-> NoCounts]

(***************************************************************************)
(* core/eximpedia: state after construction                                *)
(***************************************************************************)
API_MAX_CONCURRENT_REQUESTS == 5
API_MIN_REQUEST_INTERVAL == 1
TOKEN_REFRESH_BUFFER_SECONDS == 300
TOKEN_LIFETIME == 3600
MaxAttempts == 4
MaxRefreshAttempts == 3

NoTask == 0
NoToken == 0

\* EximpediaTokenManager.__init__; _refresh_lock is the holder and the FIFO
\* of tasks suspended in acquire().  young is scheduling state of the event
\* loop: the tasks whose POST went out in a step that left a woken waiter
\* scheduled; no response to such a POST is delivered before that waiter runs.
NewManager ==
    [token |-> NoToken, token_expiry |-> 0, holder |-> NoTask, waiters |-> <<>>,
     young |-> {}]

\* EximpediaClient.__init__
NewClient ==
    [semaphore |-> API_MAX_CONCURRENT_REQUESTS, last_request_time |-> 0]

\* a request task before its first _request call; todo is the number of
\* _request calls its handler makes on its client.  submits, asked and
\* sawRefresh are history: the last two submission times, the number of
\* invalidate() calls when its get_token call started, and whether another
\* task's refresh succeeded while it waited for the lock.
\* observed, answers and sleeps are history too: in a specification that
\* observes the attempts of a call, the faulty answers the call has had and
\* the backoff sleeps it has taken, attempt by attempt.
NewTask(todo) ==
    [pc |-> "idle", todo |-> todo, attempt |-> 0, token |-> NoToken, wake |-> 0,
     refresh_attempt |-> 0, result |-> "none", submits |-> <<>>, asked |-> 0,
     sawRefresh |-> FALSE, observed |-> FALSE, answers |-> <<>>, sleeps |-> <<>>]

\* trade_shipment_all before it is called
NewPager ==
    [pc |-> "idle", page |-> 1, total_expected |-> <<>>, all_records |-> <<>>,
     requested |-> <<>>, lens |-> <<>>, reported |-> <<>>]

\* _fetch_with_date_fallback before it is called; window: <<start, end>> of
\* the call, queried: the windows it has queried, advertised: the window
\* parsed from the first error's message
NewFallback ==
    [pc |-> "idle", window |-> <<>>, status |-> "none", queried |-> <<>>,
     advertised |-> <<>>]

\* run_all_jobs before it is called, on a new engine
NewRunner ==
    [pc |-> "idle", jobs |-> <<>>, idx |-> 1, seen |-> {}, results |-> <<>>,
     fetched |-> <<>>]

\* the normalizer before it is called; inputs: the arguments of its call,
\* outputs: what it returned for them, call by call
NewNormalizer == [inputs |-> <<>>, outputs |-> <<>>]

\* no store_records call observed yet
NoStoreLog == [hct_id |-> None, records |-> <<>>, after |-> <<>>, again |-> FALSE]

\* no pure-function call observed yet
NoCall == [fn |-> "none", args |-> <<>>, result |-> <<>>]

\* no counterparty_search request in flight; checked: requests that passed
\* can_search() and have not sent their POST, awaiting: requests whose POST
\* is in flight, atCap: a POST was sent with the search counter at its cap
NoSearchers == [checked |-> 0, awaiting |-> 0, atCap |-> FALSE]

\* no harvest job running, no page request issued yet
NewHarvester == [pc |-> "idle", kind |-> None, jobs |-> 0, pages |-> 0]

NewTokenLog == [invalidations |-> 0, cachedAt |-> [k \in 1..MaxTokens |-> 0]]

InitNetOf(ts, tk) ==
    /\ pager = NewPager
    /\ tasks = ts
    /\ task = [t \in ts |-> tk]
    /\ client = [t \in ts |-> NewClient]
    /\ tm = NewManager
    /\ issued = 0
    /\ elapsed = [ticks |-> 0, idles |-> 0, faults |-> 0]
    /\ tokenLog = NewTokenLog

InitNet(ts, todo) == InitNetOf(ts, NewTask(todo))

(***************************************************************************)
(* Initial state of the record-store specification                         *)
(***************************************************************************)
NewTracker(key) ==
    [calls_today |-> 0, harvest_calls_today |-> 0, search_calls_today |-> 0,
     day_key |-> key]

NoOp == [op |-> "none", job |-> None, ok |-> TRUE]
NoBootLog == [job |-> None, outcome |-> "none", capped |-> FALSE]

\* the calls that specifications observe one at a time: none made yet
InitCalls ==
    /\ fallback = NewFallback
    /\ runner = NewRunner
    /\ normalizer = NewNormalizer
    /\ storeLog = NoStoreLog
    /\ call = NoCall
    /\ searchers = NoSearchers
    /\ harvester = NewHarvester

InitProcess(catalog) ==
    /\ InitNet({}, 0)
    /\ InitCalls
    /\ now = 0
    /\ record_store = [h \in HctIds |-> <<>>]
    /\ HARVEST_JOBS = catalog
    /\ bootSeen = {}
    /\ bootPhase = 1
    /\ bootIdx = 1
    /\ bootPc = "next"
    /\ today = 0
    /\ budget = NewTracker(0)
    /\ lastOp = NoOp
    /\ normCount = NoCounts
    /\ engineNormCount = [e \in Engines |-> NoCounts]
    /\ engineMet = [e \in Engines |-> NoCounts]
    /\ bootLog = NoBootLog

Init ==
    /\ upstream \in Upstreams
    /\ InitProcess(SmallCatalog)

\* the model's cut-off on the store's growth
Fits(store) == \A h \in HctIds : Len(store[h]) <= MaxStored

(***************************************************************************)
(* api/routes/data.py: run_harvest                                         *)
(***************************************************************************)
\* the jobs a HarvestJobRequest selects: req.job_name, else run_all_jobs(priority)
\* (priority is <<>> for None, <<p>> for p)
SelectedJobs(job_name, priority) ==
    IF job_name # None
    THEN LET named == SelectSeq(HARVEST_JOBS, LAMBDA j : j.name = job_name)
         IN  IF named = <<>> THEN <<>> ELSE <<named[1]>>
    ELSE IF priority = <<>> THEN HARVEST_JOBS
    ELSE SelectSeq(HARVEST_JOBS, LAMBDA j : j.priority <= priority[1])

RequestEffect(op, job_name, jobs, failAt) ==
    LET acc == RunJobs(jobs, 1, failAt, now, FreshEngine)
    IN  /\ record_store' = acc.store
        /\ normCount' = acc.norm
        /\ engineNormCount' = [engineNormCount EXCEPT !["request"] = acc.eng]
        /\ engineMet' = [engineMet EXCEPT !["request"] = acc.met]
        /\ lastOp' = IF op = "run_harvest" /\ job_name # None
                     THEN [op |-> op, job |-> job_name, ok |-> failAt = 0]
                     ELSE [op |-> op, job |-> None, ok |-> TRUE]
        /\ Fits(acc.store)
        /\ UNCHANGED netVars
        /\ UNCHANGED <<upstream, now, HARVEST_JOBS, bootSeen, bootPhase, bootIdx, bootPc,
                       budget, today, bootLog>>

RunHarvest(job_name, priority, failAt) ==
    /\ RequestEffect("run_harvest", job_name, SelectedJobs(job_name, priority), failAt)

(***************************************************************************)
(* api/routes/data.py: harvest_by_commodity_name                           *)
(***************************************************************************)
\* matching_jobs of one matched commodity, or its ad-hoc jobs
CommodityJobs(hct_id) ==
    LET matching == SelectSeq(HARVEST_JOBS,
                              LAMBDA j : j.hs_codes \cap CommodityHs(hct_id) # {})
    IN  IF matching # <<>> THEN matching ELSE AdHocJobs(hct_id)

RECURSIVE MatchedJobs(_)
MatchedJobs(matches) ==
    IF matches = <<>> THEN <<>>
    ELSE CommodityJobs(Head(matches)) \o MatchedJobs(Tail(matches))

\* the commodities a name can match, in TAXONOMY order
NameMatches == {<<>>, <<TaxonomyOrder[1]>>, <<TaxonomyOrder[2]>>, TaxonomyOrder}

HarvestByCommodityName(matches, failAt) ==
    /\ RequestEffect("harvest_by_commodity_name", None, MatchedJobs(matches), failAt)

(***************************************************************************)
(* api/routes/data.py: query_shipments (one page, no harvest dedup)        *)
(***************************************************************************)
QueryShipments(hs_codes, fetched) ==
    /\ LET req == Job("query", 99, "IMPORT", "INDIA", hs_codes)
           normalized == NormalizeAll(FetchAll(req), req, now)
       IN  record_store' = IF fetched THEN StoreEach(record_store, normalized)
                           ELSE record_store
    /\ lastOp' = [op |-> "query_shipments", job |-> None, ok |-> TRUE]
    /\ Fits(record_store')
    /\ UNCHANGED netVars
    /\ UNCHANGED <<upstream, now, HARVEST_JOBS, bootSeen, bootPhase, bootIdx, bootPc,
                   budget, today, normCount, engineNormCount, engineMet, bootLog>>

(***************************************************************************)
(* api/routes/intelligence.py: a store_records call with any batch of      *)
(* records the normalizer emits for hct_id from the provider's data        *)
(***************************************************************************)
Emitted(hct_id) ==
    {r \in {normalize(upstream[i], "IMPORT", "INDIA", now) : i \in 1..Len(upstream)} :
        r.hct_id = hct_id}

StoreRecordsCall(hct_id, records) ==
    /\ record_store' = store_records(record_store, hct_id, records)
    /\ lastOp' = [op |-> "store_records", job |-> None, ok |-> TRUE]
    /\ Fits(record_store')
    /\ UNCHANGED netVars
    /\ UNCHANGED <<upstream, now, HARVEST_JOBS, bootSeen, bootPhase, bootIdx, bootPc,
                   budget, today, normCount, engineNormCount, engineMet, bootLog>>

(***************************************************************************)
(* main.py: _initial_harvest                                               *)
(***************************************************************************)
\* history: the harvest counter of the current UTC day stands at its cap
AtHarvestCap(b, key) == b.day_key = key /\ b.harvest_calls_today >= HARVEST_BUDGET

\* india_p1 (phase 1) and other_p1 (phase 2)
BootJobs(phase) ==
    SelectSeq(HARVEST_JOBS,
              LAMBDA j : j.priority <= 1 /\ ((j.trade_country = "INDIA") <=> (phase = 1)))

\* phase 2: await asyncio.sleep(2) before each job
BootSleep ==
    /\ bootPc = "next" /\ bootPhase = 2 /\ bootIdx <= Len(BootJobs(2))
    /\ bootPc' = "sleep"
    /\ UNCHANGED netVars
    /\ UNCHANGED <<upstream, now, record_store, HARVEST_JOBS, bootSeen, bootPhase,
                   bootIdx, budget, today, lastOp, normCount,
                   engineNormCount, engineMet, bootLog>>

\* _run_job up to its await: the budget check, then skip or start engine.run_job
BootCheck ==
    /\ \/ bootPc = "next" /\ bootPhase = 1 /\ bootIdx <= Len(BootJobs(1))
       \/ bootPc = "sleep"
    /\ LET job == BootJobs(bootPhase)[bootIdx]
           chk == can_harvest(budget, today)
       IN  /\ budget' = chk.budget
           /\ IF chk.ok
              THEN /\ bootPc' = "running"
                   /\ bootIdx' = bootIdx
                   /\ bootLog' = [job |-> job.name, outcome |-> "running",
                                  capped |-> AtHarvestCap(budget, today)]
              ELSE /\ bootPc' = "next"
                   /\ bootIdx' = bootIdx + 1
                   /\ bootLog' = [job |-> job.name, outcome |-> "skipped",
                                  capped |-> AtHarvestCap(budget, today)]
    /\ UNCHANGED netVars
    /\ UNCHANGED <<upstream, now, record_store, HARVEST_JOBS, bootSeen, bootPhase,
                   today, lastOp, normCount, engineNormCount,
                   engineMet>>

\* engine.run_job returns; budget.record_call("harvest"); store on SUCCESS
BootJobReturns(fetched) ==
    /\ bootPc = "running"
    /\ LET job == BootJobs(bootPhase)[bootIdx]
           res == run_job(job, bootSeen, fetched, now)
       IN  /\ bootSeen' = res.seen
           /\ budget' = record_call(budget, today, "harvest")
           /\ record_store' = IF res.status = "SUCCESS"
                               THEN StoreEach(record_store, res.normalized_records)
                               ELSE record_store
           /\ normCount' = CountKeys(res.unique, normCount)
           /\ engineNormCount' =
                  [engineNormCount EXCEPT !["bootstrap"] = CountKeys(res.unique, @)]
           /\ engineMet' = [engineMet EXCEPT !["bootstrap"] = CountKeys(res.raw, @)]
           /\ bootLog' = [bootLog EXCEPT !.outcome = res.status]
           /\ lastOp' = [op |-> "bootstrap", job |-> None, ok |-> TRUE]
           /\ Fits(record_store')
    /\ bootPc' = "next"
    /\ bootIdx' = bootIdx + 1
    /\ UNCHANGED netVars
    /\ UNCHANGED <<upstream, now, HARVEST_JOBS, bootPhase, today>>

\* a phase's loop ends: budget.status is read for the log line
BootPhaseEnd ==
    /\ bootPc = "next" /\ bootPhase \in {1, 2} /\ bootIdx > Len(BootJobs(bootPhase))
    /\ budget' = status(budget, today)
    /\ bootPhase' = bootPhase + 1
    /\ bootIdx' = 1
    /\ bootPc' = IF bootPhase = 2 THEN "done" ELSE "next"
    /\ UNCHANGED netVars
    /\ UNCHANGED <<upstream, now, record_store, HARVEST_JOBS, bootSeen, today, lastOp,
                   normCount, engineNormCount, engineMet, bootLog>>

Bootstrap == BootSleep \/ BootCheck \/ (\E f \in BOOLEAN : BootJobReturns(f)) \/ BootPhaseEnd

(***************************************************************************)
(* Spec: the record store under the dispatch handlers and the bootstrap    *)
(***************************************************************************)
Next ==
    \/ \E n \in JobNames(HARVEST_JOBS) \cup {"no_such_job"}, f \in 0..1 :
          RunHarvest(n, <<>>, f)
    \/ \E p \in {<<>>, <<1>>}, f \in 0..1 : RunHarvest(None, p, f)
    \/ \E m \in NameMatches, f \in 0..1 : HarvestByCommodityName(m, f)
    \/ \E h \in {{"08013100"}, HsCodes}, f \in BOOLEAN : QueryShipments(h, f)
    \/ \E h \in HctIds : \E b \in SeqsUpTo(Emitted(h), MaxBatch) : StoreRecordsCall(h, b)
    \/ Bootstrap

Spec == Init /\ [][Next]_vars

(***************************************************************************)
(* Claims on the record store and the harvest dedup (specification Spec)   *)
(***************************************************************************)

\* C1: for each hct_id the stored sequence never holds two records with the
\* same non-null record_id, also when both arrive in the same batch
C1_NoDuplicateRecordIds ==
    \A h \in HctIds : \A i, j \in 1..Len(record_store[h]) :
        (i # j /\ record_store[h][i].record_id # None)
            => record_store[h][i].record_id # record_store[h][j].record_id

\* C2: running the same harvest job a second time against unchanged upstream
\* data, and storing its records as run_harvest does, leaves the record store
\* as it was after the first run
C2_RerunLeavesStore ==
    [][(/\ lastOp.op = "run_harvest" /\ lastOp.job \in JobNames(HARVEST_JOBS)
        /\ lastOp.ok /\ lastOp' = lastOp)
       => record_store' = record_store]_vars

\* C3 (as claimed): over all harvest runs of the process each dedup key is
\* passed to the normalizer at most once
C3_NormalizedOncePerProcess == \A k \in DedupKeys : normCount[k] <= 1

\* C3 (amended): over all run_job calls on one HarvestEngine instance each
\* dedup key is passed to the normalizer at most once
C3_NormalizedOncePerEngine ==
    \A e \in Engines : \A k \in DedupKeys : engineNormCount[e][k] <= 1

\* C3 witness: an engine fetched a key a second time and did not normalize it again
C3_Witness ==
    \E e \in Engines : \E k \in DedupKeys :
        engineMet[e][k] = 2 /\ engineNormCount[e][k] = 1

(***************************************************************************)
(* SpecTracker: APIBudgetTracker under any sequence of its operations      *)
(***************************************************************************)
TrackerOps == {"record_call", "can_harvest", "can_search", "status", "update_from_token"}

TrackerFrame ==
    UNCHANGED netVars /\ UNCHANGED <<upstream, now, record_store, HARVEST_JOBS, bootSeen, bootPhase, bootIdx,
                bootPc, today, normCount, engineNormCount, engineMet, bootLog>>

TrackerRecordCall(call_type) ==
    /\ budget.calls_today < MaxCalls
    /\ budget' = record_call(budget, today, call_type)
    /\ lastOp' = [op |-> "record_call", job |-> None, ok |-> TRUE]
    /\ TrackerFrame

TrackerCanHarvest ==
    /\ budget' = can_harvest(budget, today).budget
    /\ lastOp' = [op |-> "can_harvest", job |-> None, ok |-> can_harvest(budget, today).ok]
    /\ TrackerFrame

TrackerCanSearch ==
    /\ budget' = can_search(budget, today).budget
    /\ lastOp' = [op |-> "can_search", job |-> None, ok |-> can_search(budget, today).ok]
    /\ TrackerFrame

TrackerStatus ==
    /\ budget' = status(budget, today)
    /\ lastOp' = [op |-> "status", job |-> None, ok |-> TRUE]
    /\ TrackerFrame

TrackerUpdateFromToken(consumed) ==
    /\ budget' = update_from_token(budget, consumed)
    /\ lastOp' = [op |-> "update_from_token", job |-> None, ok |-> TRUE]
    /\ TrackerFrame

\* midnight UTC passes: _current_day_key() returns a new key from now on
DayChange ==
    /\ today < MaxDay
    /\ today' = today + 1
    /\ lastOp' = [op |-> "day_change", job |-> None, ok |-> TRUE]
    /\ UNCHANGED netVars
    /\ UNCHANGED <<upstream, now, record_store, HARVEST_JOBS, bootSeen, bootPhase,
                   bootIdx, bootPc, budget, normCount, engineNormCount, engineMet,
                   bootLog>>

InitTracker ==
    /\ upstream = <<>>
    /\ InitProcess(SmallCatalog)

NextTracker ==
    \/ \E t \in {"harvest", "search"} : TrackerRecordCall(t)
    \/ TrackerCanHarvest
    \/ TrackerCanSearch
    \/ TrackerStatus
    \/ \E c \in 0..MaxCalls : TrackerUpdateFromToken(c)
    \/ DayChange

SpecTracker == InitTracker /\ [][NextTracker]_vars

\* C8: each of the three daily counters never decreases while the day key is
\* unchanged, and the first operation after the UTC day changed works on
\* counters reset to zero (so it leaves at most its own call in them)
C8_MonotoneAndResetOnFirstAccess ==
    [][/\ budget'.day_key = budget.day_key =>
            /\ budget'.calls_today >= budget.calls_today
            /\ budget'.harvest_calls_today >= budget.harvest_calls_today
            /\ budget'.search_calls_today >= budget.search_calls_today
       /\ (lastOp'.op \in TrackerOps /\ today' = today /\ budget.day_key # today) =>
            /\ budget'.harvest_calls_today <= 1
            /\ budget'.search_calls_today <= 1
            /\ budget'.harvest_calls_today + budget'.search_calls_today <= 1]_vars

(***************************************************************************)
(* SpecBoot: _initial_harvest over a catalog with more priority-1 jobs     *)
(* than HARVEST_BUDGET, while the UTC day may change                       *)
(***************************************************************************)
LargeCatalog ==
    [i \in 1..NumBootJobs |->
        Job("job_" \o ToString(i), 1, "IMPORT",
            IF 2 * i <= NumBootJobs THEN "INDIA" ELSE "VIETNAM", {"08013100"})]

InitBoot ==
    /\ upstream = SubSeq(AllShipments, 1, 1)
    /\ InitProcess(LargeCatalog)

NextBoot == Bootstrap \/ DayChange

\* the event loop keeps running the bootstrap task, and every upstream request
\* ends (timeouts of 60 s, at most 4 attempts), so engine.run_job returns
SpecBoot == InitBoot /\ [][NextBoot]_vars /\ WF_vars(Bootstrap)

\* C9: a bootstrap job whose budget check finds the harvest counter at its cap
\* is skipped (not run, not reported as failed), no job is running engine.run_job
\* (issuing upstream requests) while the counter is at the cap, and the
\* bootstrap runs to completion
C9_SkipsWhenExhausted ==
    /\ [](bootLog.capped => bootLog.outcome = "skipped")
    /\ [](bootPc = "running" => budget.harvest_calls_today < HARVEST_BUDGET)
    /\ <>(bootPc = "done")

\* C9 witness: the bootstrap finished after skipping a job at the exhausted budget
C9_Witness ==
    /\ bootPc = "done"
    /\ bootLog.capped /\ bootLog.outcome = "skipped"
    /\ budget.harvest_calls_today = HARVEST_BUDGET

(***************************************************************************)
(* core/eximpedia/client.py: trade_shipment_all                            *)
(*                                                                         *)
(* One call of the paginator.  Each page is one trade_shipment call, which *)
(* returns the upstream's response or raises; a response carries a number  *)
(* of records and three optional totals.  An optional total is <<>> when   *)
(* the field is absent and <<n>> otherwise.  Record i of page p is <<p,i>>. *)
(***************************************************************************)
TotalField == {<<>>} \cup {<<n>> : n \in 0..MaxTotal}

TruthyInt(f) == f # <<>> /\ f[1] # 0

\* a or b or c, and a total never reached when none is given (variant; C30
\* must fail with it)
TotalExpectedOpen(total_search_records, total_response_records, total_records) ==
    IF TruthyInt(total_search_records) THEN total_search_records[1]
    ELSE IF TruthyInt(total_response_records) THEN total_response_records[1]
    ELSE IF TruthyInt(total_records) THEN total_records[1]
    ELSE MaxTotal + MaxPageRecs

\* a or b or c or 0
TotalExpected(total_search_records, total_response_records, total_records) ==
    IF TruthyInt(total_search_records) THEN total_search_records[1]
    ELSE IF TruthyInt(total_response_records) THEN total_response_records[1]
    ELSE IF TruthyInt(total_records) THEN total_records[1]
    ELSE 0

PageRecords(page, k) == [i \in 1..k |-> <<page, i>>]

\* a stop test with > for >= (variant; C10 must fail with it)
PageStopStrict(all_len, total_expected, page_len) ==
    all_len > total_expected \/ page_len = 0

\* if len(all_records) >= total_expected or len(records) == 0: break
PageStop(all_len, total_expected, page_len) ==
    all_len >= total_expected \/ page_len = 0

\* page += 1
NextPage(page) == page + 1

PagerFrame ==
    /\ UNCHANGED storeVars
    /\ UNCHANGED extraVars
    /\ UNCHANGED <<tasks, task, client, tm, issued, elapsed, tokenLog>>

\* the call, up to the first page's request
TradeShipmentAll ==
    /\ pager.pc = "idle"
    /\ pager' = [pager EXCEPT !.pc = "await", !.page = 1, !.total_expected = <<>>,
                              !.all_records = <<>>, !.requested = <<1>>]
    /\ PagerFrame

\* one turn of the loop from the response on: extend, test, next request
PageTurn(k, total) ==
    LET all == pager.all_records \o PageRecords(pager.page, k)
        stop == PageStop(Len(all), total, k)
    IN  [pager EXCEPT !.total_expected = <<total>>,
                      !.all_records = all,
                      !.lens = Append(@, k),
                      !.pc = IF stop THEN "done" ELSE "await",
                      !.page = IF stop THEN @ ELSE NextPage(@),
                      !.requested = IF stop THEN @ ELSE Append(@, NextPage(pager.page))]

\* the response to the first page: total_expected is None and is set
FirstPageReturns(k, f1, f2, f3) ==
    /\ pager.pc = "await"
    /\ pager.total_expected = <<>>
    /\ pager' = [PageTurn(k, TotalExpected(f1, f2, f3)) EXCEPT !.reported = <<f1, f2, f3>>]
    /\ PagerFrame

\* the response to a later page: its totals are not read
LaterPageReturns(k) ==
    /\ pager.pc = "await"
    /\ pager.total_expected # <<>>
    /\ pager' = PageTurn(k, pager.total_expected[1])
    /\ PagerFrame

\* trade_shipment raises: the exception leaves trade_shipment_all
PageRaises ==
    /\ pager.pc = "await"
    /\ pager' = [pager EXCEPT !.pc = "raised"]
    /\ PagerFrame

InitPages ==
    /\ upstream = <<>>
    /\ InitProcess(SmallCatalog)

NextPages ==
    \/ TradeShipmentAll
    \/ \E k \in 0..MaxPageRecs : \E f1 \in TotalField : \E f2 \in TotalField :
         \E f3 \in TotalField : FirstPageReturns(k, f1, f2, f3)
    \/ \E k \in 0..MaxPageRecs : LaterPageReturns(k)
    \/ PageRaises

SpecPages == InitPages /\ [][NextPages]_vars

RECURSIVE SumLens(_, _)
SumLens(lens, j) == IF j = 0 THEN 0 ELSE SumLens(lens, j - 1) + lens[j]

RECURSIVE PagesInOrder(_, _)
PagesInOrder(lens, j) ==
    IF j = 0 THEN <<>> ELSE PagesInOrder(lens, j - 1) \o PageRecords(j, lens[j])

\* the total that page 1 reported: the first of its three totals that is
\* present and not zero, else zero
ReportedTotal ==
    LET present == {i \in 1..3 : pager.reported[i] # <<>> /\ pager.reported[i][1] > 0}
    IN  IF present = {} THEN 0
        ELSE pager.reported[CHOOSE i \in present : \A j \in present : i <= j][1]

StopsAfter(j) == SumLens(pager.lens, j) >= ReportedTotal \/ pager.lens[j] = 0

\* C10: trade_shipment_all requests pages 1, 2, 3, ... with no gap and no
\* repetition, holds the pages' records in page order, and stops exactly
\* after the first page at which the accumulated count reaches the total
\* page 1 reported or which holds no records.
C10_ConsecutivePagesUntilStop ==
    /\ pager.requested = [i \in 1..Len(pager.requested) |-> i]
    /\ pager.all_records = PagesInOrder(pager.lens, Len(pager.lens))
    /\ pager.pc = "done" =>
          /\ Len(pager.lens) >= 1
          /\ Len(pager.requested) = Len(pager.lens)
          /\ StopsAfter(Len(pager.lens))
          /\ \A j \in 1..(Len(pager.lens) - 1) : ~StopsAfter(j)
    /\ pager.pc = "await" =>
          /\ Len(pager.requested) = Len(pager.lens) + 1
          /\ \A j \in 1..Len(pager.lens) : ~StopsAfter(j)

\* a pagination of three pages that the total stopped
C10_Witness ==
    /\ pager.pc = "done"
    /\ Len(pager.requested) = 3
    /\ pager.lens[3] > 0
    /\ Len(pager.all_records) >= ReportedTotal

(***************************************************************************)
(* core/eximpedia: _request and the token manager                          *)
(*                                                                         *)
(* Every route handler and every harvest engine constructs its own         *)
(* EximpediaClient, so a request task t has its own client[t]; the token   *)
(* manager is the process-wide singleton tm.  Tasks are coroutines on one  *)
(* event loop: a step runs from one suspension point to the next, so every *)
(* action below is the code between two awaits.  Time is in whole seconds. *)
(* A token is the number of its issue.                                     *)
(***************************************************************************)
Pow2(n) == IF n = 0 THEN 1 ELSE IF n = 1 THEN 2 ELSE IF n = 2 THEN 4
           ELSE IF n = 3 THEN 8 ELSE IF n = 4 THEN 16 ELSE 32

LastTwo(s) == IF Len(s) <= 2 THEN s ELSE SubSeq(s, Len(s) - 1, Len(s))

\* self.token and time.time() < self.token_expiry - TOKEN_REFRESH_BUFFER_SECONDS
Valid(m, t_now) ==
    m.token # NoToken /\ t_now < m.token_expiry - TOKEN_REFRESH_BUFFER_SECONDS

\* an invalidate() that keeps the token (variant; C7 must fail with it)
invalidate_keeps(m) == m

invalidate(m) == [m EXCEPT !.token = NoToken, !.token_expiry = 0]

\* wait = self.min_interval - (now - self.last_request_time)
IntervalWait(cl, t_now) == API_MIN_REQUEST_INTERVAL - (t_now - cl.last_request_time)

\* history of an observed call: a faulty answer to one of its attempts
Answered(tk, answer) ==
    IF tk.observed THEN [tk EXCEPT !.answers = Append(@, answer)] ELSE tk

\* history of an observed call: a backoff sleep it takes
Slept(tk, sleep) ==
    IF tk.observed THEN [tk EXCEPT !.sleeps = Append(@, sleep)] ELSE tk

\* the call returns or raises: its locals are gone
Return(tk, result) ==
    [tk EXCEPT !.pc = "idle", !.result = result, !.attempt = 0, !.token = NoToken,
               !.wake = 0, !.refresh_attempt = 0, !.asked = 0, !.sawRefresh = FALSE]

\* an attempt loop that never runs out (variant; C29 must fail with it)
SubmitAgain(tk, token, att, t_now) ==
    [tk EXCEPT !.pc = "inflight", !.attempt = att, !.token = token,
               !.submits = LastTwo(Append(@, t_now))]

\* the top of the attempt loop with `token` in hand: the POST of attempt
\* att, or the raise after the loop when no attempt is left
Submit(tk, token, att, t_now) ==
    IF att < MaxAttempts
    THEN [tk EXCEPT !.pc = "inflight", !.attempt = att, !.token = token,
                    !.submits = LastTwo(Append(@, t_now))]
    ELSE Return(tk, "exhausted")

\* get_token from its call to its first suspension, for task t that will
\* go on with attempt att: the fast path, or the lock taken free (the
\* double check then sees what the fast path saw) and the first refresh
\* request sent, or the task queued on the lock
get_token(m, tk, t, att, t_now, invalidations) ==
    LET called == [tk EXCEPT !.asked = invalidations, !.sawRefresh = FALSE,
                             !.attempt = att]
    IN  IF Valid(m, t_now)
        THEN [tm |-> m, task |-> Submit(called, m.token, att, t_now)]
        ELSE IF m.holder = NoTask /\ m.waiters = <<>>
        THEN [tm |-> [m EXCEPT !.holder = t],
              task |-> [called EXCEPT !.pc = "refreshing", !.refresh_attempt = 0]]
        ELSE [tm |-> [m EXCEPT !.waiters = Append(@, t)],
              task |-> [called EXCEPT !.pc = "lockwait"]]

\* leaving `async with self.semaphore` when the call has returned or raised
Leave(cl, tk) ==
    IF tk.pc = "idle" THEN [cl EXCEPT !.semaphore = @ + 1] ELSE cl

\* the lock was released and its first waiter is scheduled but has not run:
\* the loop runs what is already ready (responses that have arrived) before
\* it starts anything later
WakePending == tm.holder = NoTask /\ tm.waiters # <<>>

ClientFrame ==
    /\ UNCHANGED storeVars
    /\ UNCHANGED extraVars
    /\ UNCHANGED <<pager, tasks, elapsed>>

\* a step in which the upstream misbehaves; the model bounds their number
FaultFrame ==
    /\ elapsed.faults < MaxFaults
    /\ elapsed' = [elapsed EXCEPT !.faults = @ + 1]
    /\ UNCHANGED storeVars
    /\ UNCHANGED extraVars
    /\ UNCHANGED <<pager, tasks>>

\* _request: the semaphore, the interval wait, and on to get_token
StartRequest(t) ==
    /\ ~WakePending
    /\ task[t].pc = "idle"
    /\ task[t].todo > 0
    /\ client[t].semaphore > 0
    /\ LET tk == [task[t] EXCEPT !.todo = @ - 1, !.result = "none", !.attempt = 0,
                                 !.answers = <<>>, !.sleeps = <<>>]
           cl == [client[t] EXCEPT !.semaphore = @ - 1]
           wait == IntervalWait(cl, now)
           got == get_token(tm, tk, t, 0, now, tokenLog.invalidations)
       IN  IF wait > 0
           THEN /\ task' = [task EXCEPT ![t] = [tk EXCEPT !.pc = "interval",
                                                          !.wake = now + wait]]
                /\ client' = [client EXCEPT ![t] = cl]
                /\ UNCHANGED tm
           ELSE /\ task' = [task EXCEPT ![t] = got.task]
                /\ client' = [client EXCEPT ![t] = Leave(cl, got.task)]
                /\ tm' = got.tm
    /\ UNCHANGED <<issued, tokenLog>>
    /\ ClientFrame

\* asyncio.sleep(wait) is over
IntervalWake(t) ==
    /\ ~WakePending
    /\ task[t].pc = "interval"
    /\ now >= task[t].wake
    /\ LET got == get_token(tm, task[t], t, 0, now, tokenLog.invalidations)
       IN  /\ task' = [task EXCEPT ![t] = got.task]
           /\ client' = [client EXCEPT ![t] = Leave(@, got.task)]
           /\ tm' = got.tm
    /\ UNCHANGED <<issued, tokenLog>>
    /\ ClientFrame

\* acquire() returns in the first waiter: the double check, then the cached
\* token or the first refresh request
LockGranted(t) ==
    /\ WakePending
    /\ Head(tm.waiters) = t
    /\ LET m == [tm EXCEPT !.waiters = Tail(@)]
       IN  IF Valid(m, now)
           THEN LET tk == Submit(task[t], m.token, task[t].attempt, now)
                IN  /\ tm' = [m EXCEPT !.young = IF m.waiters = <<>> THEN {}
                                                 ELSE @ \cup {t}]
                    /\ task' = [task EXCEPT ![t] = tk]
                    /\ client' = [client EXCEPT ![t] = Leave(@, tk)]
           ELSE /\ tm' = [m EXCEPT !.holder = t, !.young = {}]
                /\ task' = [task EXCEPT ![t].pc = "refreshing",
                                        ![t].refresh_attempt = 0]
                /\ UNCHANGED client
    /\ UNCHANGED <<issued, tokenLog>>
    /\ ClientFrame

\* _refresh_token: the OAuth endpoint answers with a token
RefreshSucceeds(t) ==
    /\ task[t].pc = "refreshing"
    /\ issued < MaxTokens
    /\ LET token == issued + 1
           tk == Submit(task[t], token, task[t].attempt, now)
       IN  /\ issued' = token
           /\ tm' = [tm EXCEPT !.token = token,
                               !.token_expiry = now + TOKEN_LIFETIME,
                               !.holder = NoTask,
                               !.young = IF tm.waiters = <<>> THEN {} ELSE {t}]
           /\ task' = [u \in tasks |->
                          IF u = t THEN tk
                          ELSE IF task[u].pc = "lockwait"
                          THEN [task[u] EXCEPT !.sawRefresh = TRUE]
                          ELSE task[u]]
           /\ client' = [client EXCEPT ![t] = Leave(@, tk)]
           /\ tokenLog' = [tokenLog EXCEPT !.cachedAt[token] = tokenLog.invalidations]
    /\ ClientFrame

\* a refresh that gives up and drops the cached token (variant; C15 must
\* fail with it)
GiveUpForgets(m) == [m EXCEPT !.holder = NoTask, !.token = NoToken, !.token_expiry = 0]

\* _refresh_token raises after its last attempt: the lock is released, and
\* token and token_expiry are as they were
GiveUp(m) == [m EXCEPT !.holder = NoTask]

\* _refresh_token: the attempt fails; sleep, or after the third attempt
\* RuntimeError, which leaves get_token and _request
RefreshFails(t) ==
    /\ task[t].pc = "refreshing"
    /\ IF task[t].refresh_attempt < MaxRefreshAttempts - 1
       THEN /\ task' = [task EXCEPT ![t].pc = "refresh_backoff",
                                    ![t].wake = now + Pow2(task[t].refresh_attempt + 1)]
            /\ UNCHANGED <<tm, client>>
       ELSE /\ task' = [task EXCEPT ![t] = Return(@, "refresh_failed")]
            /\ tm' = GiveUp(tm)
            /\ client' = [client EXCEPT ![t].semaphore = @ + 1]
    /\ UNCHANGED <<issued, tokenLog>>
    /\ FaultFrame

\* _refresh_token: the OAuth endpoint answers 200 with a body that is not
\* JSON; the decoding error is none of those the loop catches and leaves
\* _refresh_token, get_token and _request at once
RefreshMalformed(t) ==
    /\ task[t].pc = "refreshing"
    /\ task' = [task EXCEPT ![t] = Return(@, "refresh_error")]
    /\ tm' = GiveUp(tm)
    /\ client' = [client EXCEPT ![t].semaphore = @ + 1]
    /\ UNCHANGED <<issued, tokenLog>>
    /\ FaultFrame

\* the sleep between refresh attempts is over: the next refresh request
RefreshWake(t) ==
    /\ ~WakePending
    /\ task[t].pc = "refresh_backoff"
    /\ now >= task[t].wake
    /\ task' = [task EXCEPT ![t].pc = "refreshing", ![t].refresh_attempt = @ + 1]
    /\ UNCHANGED <<tm, client, issued, tokenLog>>
    /\ ClientFrame

\* the upstream answers 200: the call returns
Response200(t) ==
    /\ task[t].pc = "inflight"
    /\ t \notin tm.young
    /\ task' = [task EXCEPT ![t] = Return(@, "ok")]
    /\ client' = [client EXCEPT ![t].last_request_time = now, ![t].semaphore = @ + 1]
    /\ UNCHANGED <<tm, issued, tokenLog>>
    /\ ClientFrame

\* the upstream answers 401: invalidate(), get_token(), continue
Response401(t) ==
    /\ task[t].pc = "inflight"
    /\ t \notin tm.young
    /\ LET got == get_token(invalidate(tm), Answered(task[t], "401"), t,
                            task[t].attempt + 1, now, tokenLog.invalidations + 1)
           cl == [client[t] EXCEPT !.last_request_time = now]
       IN  /\ task' = [task EXCEPT ![t] = got.task]
           /\ client' = [client EXCEPT ![t] = Leave(cl, got.task)]
           /\ tm' = got.tm
    /\ tokenLog' = [tokenLog EXCEPT !.invalidations = @ + 1]
    /\ UNCHANGED issued
    /\ FaultFrame

\* the upstream answers 429: sleep 2 ** (attempt + 2), continue
Response429(t) ==
    /\ task[t].pc = "inflight"
    /\ t \notin tm.young
    /\ LET backoff == Pow2(task[t].attempt + 2)
       IN  task' = [task EXCEPT ![t] = [Slept(Answered(@, "429"), backoff) EXCEPT
                                           !.pc = "backoff", !.wake = now + backoff]]
    /\ client' = [client EXCEPT ![t].last_request_time = now]
    /\ UNCHANGED <<tm, issued, tokenLog>>
    /\ FaultFrame

\* the upstream answers another status: EximpediaAPIError(status)
ResponseOther(t) ==
    /\ task[t].pc = "inflight"
    /\ t \notin tm.young
    /\ task' = [task EXCEPT ![t] = Return(@, "status")]
    /\ client' = [client EXCEPT ![t].last_request_time = now, ![t].semaphore = @ + 1]
    /\ UNCHANGED <<tm, issued, tokenLog>>
    /\ FaultFrame

\* httpx.HTTPError instead of a response: sleep 2 ** (attempt + 1) while
\* attempt < 3, else re-raise; last_request_time is not written
TransportError(t) ==
    /\ task[t].pc = "inflight"
    /\ t \notin tm.young
    /\ IF task[t].attempt < MaxAttempts - 1
       THEN /\ LET backoff == Pow2(task[t].attempt + 1)
               IN  task' = [task EXCEPT ![t] = [Slept(Answered(@, "transport"), backoff)
                                                   EXCEPT !.pc = "backoff",
                                                          !.wake = now + backoff]]
            /\ UNCHANGED client
       ELSE /\ task' = [task EXCEPT ![t] = Return(Answered(@, "transport"), "transport")]
            /\ client' = [client EXCEPT ![t].semaphore = @ + 1]
    /\ UNCHANGED <<tm, issued, tokenLog>>
    /\ FaultFrame

\* the backoff sleep is over: the next attempt, with the token in hand
BackoffWake(t) ==
    /\ ~WakePending
    /\ task[t].pc = "backoff"
    /\ now >= task[t].wake
    /\ LET tk == Submit(task[t], task[t].token, task[t].attempt + 1, now)
       IN  /\ task' = [task EXCEPT ![t] = tk]
           /\ client' = [client EXCEPT ![t] = Leave(@, tk)]
    /\ UNCHANGED <<tm, issued, tokenLog>>
    /\ ClientFrame

TimeFrame ==
    /\ UNCHANGED <<upstream, record_store, HARVEST_JOBS, bootSeen, bootPhase, bootIdx,
                   bootPc, budget, today, lastOp, normCount,
                   engineNormCount, engineMet, bootLog>>
    /\ UNCHANGED <<pager, tasks, task, client, tm, issued, tokenLog>>
    /\ UNCHANGED extraVars

Sleeping(t) == task[t].pc \in {"interval", "backoff", "refresh_backoff"}

\* a second passes
Tick ==
    /\ ~WakePending
    /\ elapsed.ticks < MaxTime
    /\ now' = now + 1
    /\ elapsed' = [elapsed EXCEPT !.ticks = @ + 1]
    /\ TimeFrame

\* time passes until the sleep of task t is over
SleepOver(t) ==
    /\ ~WakePending
    /\ Sleeping(t)
    /\ task[t].wake > now
    /\ now' = task[t].wake
    /\ UNCHANGED elapsed
    /\ TimeFrame

\* nothing is under way for as long as a token stays valid
LongIdle ==
    /\ \A t \in tasks : task[t].pc = "idle"
    /\ elapsed.idles < MaxIdle
    /\ now' = now + (TOKEN_LIFETIME - TOKEN_REFRESH_BUFFER_SECONDS)
    /\ elapsed' = [elapsed EXCEPT !.idles = @ + 1]
    /\ TimeFrame

InitTasksOf(ts, tk) ==
    /\ upstream = <<>>
    /\ now = StartTime
    /\ record_store = [h \in HctIds |-> <<>>]
    /\ HARVEST_JOBS = SmallCatalog
    /\ bootSeen = {}
    /\ bootPhase = 1
    /\ bootIdx = 1
    /\ bootPc = "next"
    /\ today = 0
    /\ budget = NewTracker(0)
    /\ lastOp = NoOp
    /\ normCount = NoCounts
    /\ engineNormCount = [e \in Engines |-> NoCounts]
    /\ engineMet = [e \in Engines |-> NoCounts]
    /\ bootLog = NoBootLog
    /\ InitNetOf(ts, tk)
    /\ InitCalls

InitTasks(ts, todo) == InitTasksOf(ts, NewTask(todo))

\* one handler making two calls through its client
InitClient == InitTasks({1}, 2)

NextClient ==
    \/ \E t \in tasks : StartRequest(t)
    \/ \E t \in tasks : IntervalWake(t)
    \/ \E t \in tasks : RefreshSucceeds(t)
    \/ \E t \in tasks : RefreshFails(t)
    \/ \E t \in tasks : RefreshWake(t)
    \/ \E t \in tasks : Response200(t)
    \/ \E t \in tasks : Response401(t)
    \/ \E t \in tasks : Response429(t)
    \/ \E t \in tasks : ResponseOther(t)
    \/ \E t \in tasks : TransportError(t)
    \/ \E t \in tasks : BackoffWake(t)
    \/ \E t \in tasks : SleepOver(t)
    \/ Tick
    \/ LongIdle

SpecClient == InitClient /\ [][NextClient]_vars

\* handlers running at the same time, one call each, sharing the token
\* manager; the upstream answers 200 or 401
InitToken == InitTasks(1..NumTokenTasks, 1)

NextToken ==
    \/ \E t \in tasks : StartRequest(t)
    \/ \E t \in tasks : LockGranted(t)
    \/ \E t \in tasks : RefreshSucceeds(t)
    \/ \E t \in tasks : RefreshFails(t)
    \/ \E t \in tasks : RefreshWake(t)
    \/ \E t \in tasks : Response200(t)
    \/ \E t \in tasks : Response401(t)
    \/ \E t \in tasks : SleepOver(t)

SpecToken == InitToken /\ [][NextToken]_vars

\* the same with three handlers: one to refresh, one to wait for the lock,
\* one with a request in flight
InitWaiters == InitTasks({1, 2, 3}, 1)

SpecWaiters == InitWaiters /\ [][NextToken]_vars

\* handlers running at the same time, one call each, with an upstream that
\* answers every request with 200
InitInFlight == InitTasks(1..NumClients, 1)

NextInFlight ==
    \/ \E t \in tasks : StartRequest(t)
    \/ \E t \in tasks : LockGranted(t)
    \/ \E t \in tasks : RefreshSucceeds(t)
    \/ \E t \in tasks : Response200(t)

SpecInFlight == InitInFlight /\ [][NextInFlight]_vars

InFlight == {t \in tasks : task[t].pc = "inflight"}

Refreshing == {t \in tasks : task[t].pc \in {"refreshing", "refresh_backoff"}}

\* C4: the number of upstream requests in flight, over all clients of the
\* process, is at most API_MAX_CONCURRENT_REQUESTS.
C4_InFlightAtMostLimit ==
    Cardinality(InFlight) <= API_MAX_CONCURRENT_REQUESTS

\* C5: two consecutive POSTs through one client are at least
\* API_MIN_REQUEST_INTERVAL seconds apart, re-submission after a 401 or a
\* transport error included.
C5_MinIntervalBetweenPosts ==
    \A t \in tasks :
        Len(task[t].submits) = 2 =>
            task[t].submits[2] - task[t].submits[1] >= API_MIN_REQUEST_INTERVAL

\* C6: at most one token refresh is in progress, and a task that waited for
\* the lock while another task's refresh succeeded goes on with the cached
\* token and sends no refresh request of its own.
C6_OneRefreshWaitersReuse ==
    /\ Cardinality(Refreshing) <= 1
    /\ \A t \in Refreshing : ~task[t].sawRefresh

\* C7: a get_token call that starts after invalidate() returns a token that
\* was cached after that invalidate(): the token a task holds from its last
\* get_token call was cached no earlier than the last invalidate() before
\* the call.
C7_FreshAfterInvalidate ==
    \A t \in tasks :
        (task[t].pc \in {"inflight", "backoff"} /\ task[t].token # NoToken) =>
            tokenLog.cachedAt[task[t].token] >= task[t].asked

\* a request sent with the token of a get_token call made after an
\* invalidate()
C7_Witness ==
    \E t \in tasks :
        /\ task[t].pc = "inflight"
        /\ task[t].asked >= 1
        /\ task[t].token # NoToken
        /\ tokenLog.cachedAt[task[t].token] >= task[t].asked


(***************************************************************************)
(* SpecFallback: one call of HarvestEngine._fetch_with_date_fallback.      *)
(* Dates are day numbers 0..MaxDate.  trade_shipment_all either returns    *)
(* or raises EximpediaAPIError(status_code, message); the message either   *)
(* advertises a window "available from A to B", contains "available from"  *)
(* without two dates, or says nothing of a window.                         *)
(***************************************************************************)
Dates == 0..MaxDate

Windows == {w \in Dates \X Dates : w[1] <= w[2]}

Max(a, b) == IF a >= b THEN a ELSE b

\* message of an EximpediaAPIError: [available |-> does it contain
\* "available from", window |-> <<>> or <<<<A, B>>>> when the regex matches]
Messages ==
    {[available |-> FALSE, window |-> <<>>], [available |-> TRUE, window |-> <<>>]}
        \cup {[available |-> TRUE, window |-> <<w>>] : w \in Windows}

ErrorStatuses == {400, 429, 500, 0}

FallbackFrame ==
    /\ UNCHANGED storeVars
    /\ UNCHANGED <<pager, tasks, task, client, tm, issued, elapsed, tokenLog>>
    /\ UNCHANGED <<runner, normalizer, storeLog, call, searchers, harvester>>

\* lines 101-113: build the payload for start..end, first trade_shipment_all
FetchWithDateFallback(start, end) ==
    /\ fallback.pc = "idle"
    /\ fallback' = [fallback EXCEPT !.pc = "first", !.window = <<start, end>>,
                                    !.queried = <<<<start, end>>>>]
    /\ FallbackFrame

\* line 113: the first call returns its records
FirstFetchReturns ==
    /\ fallback.pc = "first"
    /\ fallback' = [fallback EXCEPT !.pc = "returned"]
    /\ FallbackFrame

\* the window queried by the retry, lines 122-123
RetryWindow(start, end, w) == <<Max(start, w[1]), w[2]>>

\* lines 114-138: the first call raises EximpediaAPIError(status, message)
FirstFetchRaises(status_code, message) ==
    /\ fallback.pc = "first"
    /\ IF status_code = 400 /\ message.available /\ message.window # <<>>
       THEN fallback' = [fallback EXCEPT
                !.pc = "second",
                !.advertised = message.window,
                !.queried = Append(@, RetryWindow(fallback.window[1],
                                                  fallback.window[2],
                                                  message.window[1]))]
       ELSE fallback' = [fallback EXCEPT !.pc = "raised", !.status = status_code]
    /\ FallbackFrame

\* line 137: the retry returns its records
SecondFetchReturns ==
    /\ fallback.pc = "second"
    /\ fallback' = [fallback EXCEPT !.pc = "returned"]
    /\ FallbackFrame

\* line 137: the retry raises inside the except block, and the error leaves
\* the method as it is
SecondFetchRaises(status_code) ==
    /\ fallback.pc = "second"
    /\ fallback' = [fallback EXCEPT !.pc = "raised", !.status = status_code]
    /\ FallbackFrame

InitFallback ==
    /\ upstream = <<>>
    /\ InitProcess(SmallCatalog)

NextFallback ==
    \/ \E w \in Windows : FetchWithDateFallback(w[1], w[2])
    \/ FirstFetchReturns
    \/ \E st \in ErrorStatuses : \E m \in Messages : FirstFetchRaises(st, m)
    \/ SecondFetchReturns
    \/ \E st \in ErrorStatuses : SecondFetchRaises(st)

SpecFallback == InitFallback /\ [][NextFallback]_vars

\* C11: a 400 that advertises a window is retried exactly once, and the retry
\* queries the intersection of the requested and the advertised window (the
\* later start, the earlier end); nothing is queried a third time.
C11_RetryQueriesIntersection ==
    /\ Len(fallback.queried) <= 2
    /\ Len(fallback.queried) = 2 =>
         /\ fallback.advertised # <<>>
         /\ fallback.queried[2] =
              <<Max(fallback.window[1], fallback.advertised[1][1]),
                IF fallback.window[2] <= fallback.advertised[1][2]
                THEN fallback.window[2] ELSE fallback.advertised[1][2]>>


(***************************************************************************)
(* SpecRetry: one call of EximpediaClient._request, observed attempt by    *)
(* attempt: the upstream answers each POST with 200, 401, 429, another     *)
(* status, or not at all (httpx.HTTPError).                                *)
(***************************************************************************)
InitRetry == InitTasksOf({1}, [NewTask(1) EXCEPT !.observed = TRUE])

NextRetry ==
    \/ \E t \in tasks : StartRequest(t)
    \/ \E t \in tasks : RefreshSucceeds(t)
    \/ \E t \in tasks : RefreshFails(t)
    \/ \E t \in tasks : RefreshWake(t)
    \/ \E t \in tasks : Response200(t)
    \/ \E t \in tasks : Response401(t)
    \/ \E t \in tasks : Response429(t)
    \/ \E t \in tasks : ResponseOther(t)
    \/ \E t \in tasks : TransportError(t)
    \/ \E t \in tasks : BackoffWake(t)
    \/ \E t \in tasks : SleepOver(t)

SpecRetry == InitRetry /\ [][NextRetry]_vars

\* the number of entries of s that are in the set S
CountIn(s, S) == Cardinality({i \in 1..Len(s) : s[i] \in S})

\* C12: a 401 does not use up retry budget: a call whose answers included a
\* 401 runs out of attempts only after MaxAttempts attempts answered with 429
\* or a transport error.
C12_UnauthorizedKeepsBudget ==
    \A t \in tasks :
        (task[t].result \in {"exhausted", "transport"} /\ "401" \in
            {task[t].answers[i] : i \in 1..Len(task[t].answers)})
            => CountIn(task[t].answers, {"429", "transport"}) = MaxAttempts

\* the status codes a returned call may have raised in an EximpediaAPIError:
\* 0 after the loop (line 147), the response's own status for a status that
\* is not 200, 401 or 429 (lines 129-132); an httpx.HTTPError re-raised
\* (line 145) and the RuntimeError of a failed refresh are not one
OtherStatuses == {400, 500}

RaisedStatus(result) ==
    IF result = "exhausted" THEN {0}
    ELSE IF result = "status" THEN OtherStatuses
    ELSE {}

\* the call of task t is over and every one of its n attempts had `answer`
AllAnswered(t, answer, n) ==
    /\ task[t].pc = "idle"
    /\ task[t].result # "none"
    /\ task[t].answers = [i \in 1..n |-> answer]

\* C13: a call whose attempts are all answered 429 backs off 4, 8, 16 and
\* 32 seconds after attempts 1 to 4 and then fails with an error of status 429.
C13_RateLimitedFailsWith429 ==
    \A t \in tasks :
        AllAnswered(t, "429", MaxAttempts)
            => /\ task[t].sleeps = <<4, 8, 16, 32>>
               /\ RaisedStatus(task[t].result) = {429}

\* C14: a call that fails after every one of its attempts ended in a
\* transport error has made exactly four attempts, has slept 2, 4 and 8
\* seconds between them, and fails with an error of status 0.
C14_TransportFailsWithStatus0 ==
    \A t \in tasks :
        (task[t].pc = "idle" /\ task[t].result \notin {"none", "ok", "status"}
            /\ task[t].answers # <<>>
            /\ \A i \in 1..Len(task[t].answers) : task[t].answers[i] = "transport")
            => /\ Len(task[t].answers) = MaxAttempts
               /\ task[t].sleeps = <<2, 4, 8>>
               /\ RaisedStatus(task[t].result) = {0}


(***************************************************************************)
(* SpecRefresh: one handler making two calls, with an OAuth endpoint that  *)
(* answers a refresh request with a token, with a failure, or with a body  *)
(* that cannot be decoded; the token may age between the calls.            *)
(***************************************************************************)
InitRefresh == InitTasks({1}, 2)

NextRefresh ==
    \/ \E t \in tasks : StartRequest(t)
    \/ \E t \in tasks : IntervalWake(t)
    \/ \E t \in tasks : RefreshSucceeds(t)
    \/ \E t \in tasks : RefreshFails(t)
    \/ \E t \in tasks : RefreshMalformed(t)
    \/ \E t \in tasks : RefreshWake(t)
    \/ \E t \in tasks : Response200(t)
    \/ \E t \in tasks : Response401(t)
    \/ \E t \in tasks : SleepOver(t)
    \/ LongIdle

SpecRefresh == InitRefresh /\ [][NextRefresh]_vars

\* task t is in _refresh_token, its request sent or between two requests
InRefresh(t) == task[t].pc \in {"refreshing", "refresh_backoff"}

\* C15: a refresh sends at most three OAuth requests; get_token fails with
\* the refresh error only after the third failed request, and token and
\* expiry are then as they were; a refresh that succeeds caches the new
\* token with expiry now + 3600.
C15_RefreshThreeTimes ==
    [][\A t \in tasks :
        /\ InRefresh(t)' => task'[t].refresh_attempt + 1 <= MaxRefreshAttempts
        /\ (InRefresh(t) /\ task'[t].result = "refresh_failed")
             => /\ task[t].refresh_attempt + 1 = MaxRefreshAttempts
                /\ tm'.token = tm.token
                /\ tm'.token_expiry = tm.token_expiry
        /\ (InRefresh(t) /\ issued' # issued)
             => /\ tm'.token = issued'
                /\ tm'.token_expiry = now + TOKEN_LIFETIME]_vars

C15_Witness ==
    \E t \in tasks :
        /\ task[t].result = "refresh_failed"
        /\ tm.token # NoToken
        /\ tm.token_expiry = StartTime + TOKEN_LIFETIME


(***************************************************************************)
(* SpecJobs: one call of HarvestEngine.run_all_jobs on a new engine.  For  *)
(* each job the fetch raises, or returns the items of the upstream's       *)
(* "data" lists: a record that normalizes, a JSON object whose             *)
(* normalization raises, or a JSON value that is not an object.            *)
(***************************************************************************)
\* an item of a "data" list: json tells a JSON object from another JSON
\* value (which has no fields to read); raises: normalize raises on it
RawItem(decl, item, hs, raises) ==
    [json |-> "object", DECLARATION_NO |-> decl, ITEM_NO |-> item, HS_CODE |-> hs,
     raises |-> raises]

NotAnObject ==
    [json |-> "null", DECLARATION_NO |-> None, ITEM_NO |-> None, HS_CODE |-> None,
     raises |-> TRUE]

JobItems ==
    { NotAnObject,
      RawItem("D1", "1", "08013100", FALSE), RawItem("D1", "1", "08013100", TRUE),
      RawItem(None, "1", "08013100", FALSE) }

\* lines 63-74: normalized.append(n), or errors += 1 when normalize raises
RECURSIVE NormalizeLoop(_, _, _, _)
NormalizeLoop(unique, job, normalized, errors) ==
    IF unique = <<>> THEN [normalized |-> normalized, errors |-> errors]
    ELSE LET r == Head(unique)
         IN  IF r.raises
             THEN NormalizeLoop(Tail(unique), job, normalized, errors + 1)
             ELSE NormalizeLoop(Tail(unique), job,
                      Append(normalized,
                             normalize(r, job.trade_type, job.trade_country, now)),
                      errors)

\* lines 43-48
FailedSummary(job) ==
    [job_name |-> job.name, status |-> "FAILED", raw_count |-> 0,
     normalized_count |-> 0]

\* lines 81-90
SuccessSummary(job, raw_records, unique_records, n) ==
    [job_name |-> job.name, status |-> "SUCCESS", raw_count |-> Len(raw_records),
     unique_count |-> Len(unique_records),
     normalized_count |-> Len(n.normalized), error_count |-> n.errors,
     normalized_records |-> n.normalized]

JobsFrame ==
    /\ UNCHANGED storeVars
    /\ UNCHANGED <<pager, tasks, task, client, tm, issued, elapsed, tokenLog>>
    /\ UNCHANGED <<fallback, normalizer, storeLog, call, searchers, harvester>>

\* lines 140-145: the jobs selected by priority (<<>> for None)
RunAllJobs(priority) ==
    /\ runner.pc = "idle"
    /\ runner' = [runner EXCEPT !.pc = "running",
                                !.jobs = SelectedJobs(None, priority)]
    /\ JobsFrame

\* run_job, the fetch raises: the FAILED summary is appended
JobFetchRaises ==
    /\ runner.pc = "running"
    /\ runner.idx <= Len(runner.jobs)
    /\ runner' = [runner EXCEPT
            !.idx = @ + 1,
            !.results = Append(@, FailedSummary(runner.jobs[runner.idx])),
            !.fetched = Append(@, <<>>)]
    /\ JobsFrame

\* run_job, the fetch returns raw_records: the dedup loop calls r.get on
\* every item (line 54), outside any try, so an item that is not an object
\* raises out of run_job and run_all_jobs; else normalize and summarize
JobFetchReturns(raw_records) ==
    /\ runner.pc = "running"
    /\ runner.idx <= Len(runner.jobs)
    /\ IF \E i \in 1..Len(raw_records) : raw_records[i].json # "object"
       THEN runner' = [runner EXCEPT !.pc = "raised",
                                     !.fetched = Append(@, <<raw_records>>)]
       ELSE LET job == runner.jobs[runner.idx]
                d == DedupLoop(raw_records, runner.seen, <<>>)
                n == NormalizeLoop(d.unique, job, <<>>, 0)
            IN  runner' = [runner EXCEPT
                    !.idx = @ + 1,
                    !.seen = d.seen,
                    !.results = Append(@, SuccessSummary(job, raw_records, d.unique, n)),
                    !.fetched = Append(@, <<raw_records>>)]
    /\ JobsFrame

\* line 151: return results
RunAllJobsReturns ==
    /\ runner.pc = "running"
    /\ runner.idx > Len(runner.jobs)
    /\ runner' = [runner EXCEPT !.pc = "returned"]
    /\ JobsFrame

InitJobs ==
    /\ upstream = <<>>
    /\ InitProcess(SmallCatalog)

NextJobs ==
    \/ \E p \in {<<>>, <<1>>} : RunAllJobs(p)
    \/ JobFetchRaises
    \/ \E rs \in SeqsUpTo(JobItems, MaxJobRecs) : JobFetchReturns(rs)
    \/ RunAllJobsReturns

SpecJobs == InitJobs /\ [][NextJobs]_vars

\* the summary run_all_jobs owes for a job whose fetch went as f: <<>> when
\* it raised, <<raw_records>> when it returned
SummaryFits(summary, job, f) ==
    /\ summary.job_name = job.name
    /\ IF f = <<>>
       THEN summary.status = "FAILED"
       ELSE /\ summary.status = "SUCCESS"
            /\ summary.raw_count = Len(f[1])
            /\ summary.normalized_count + summary.error_count = summary.unique_count

\* C16: whatever the upstream does, run_all_jobs returns: it never raises,
\* it has summarized every job it has gone through, in catalog order, FAILED
\* for a fetch that raised, and a record whose normalization raises is
\* counted in error_count and left out.
C16_OneSummaryPerJob ==
    /\ runner.pc # "raised"
    /\ Len(runner.results) = runner.idx - 1
    /\ runner.pc = "returned" => Len(runner.results) = Len(runner.jobs)
    /\ \A i \in 1..Len(runner.results) :
         SummaryFits(runner.results[i], runner.jobs[i], runner.fetched[i])


(***************************************************************************)
(* SpecNormalize: NormalizationPipeline.normalize called again and again   *)
(* on one raw record, with one trade type and country, while time passes.  *)
(***************************************************************************)
TradeTypes == {"IMPORT", "EXPORT"}

TradeCountries == {"INDIA", "VIETNAM"}

NormalizeFrame ==
    /\ UNCHANGED <<upstream, record_store, HARVEST_JOBS, bootSeen, bootPhase, bootIdx,
                   bootPc, budget, today, lastOp, normCount,
                   engineNormCount, engineMet, bootLog>>
    /\ UNCHANGED <<pager, tasks, task, client, tm, issued, elapsed, tokenLog>>
    /\ UNCHANGED <<fallback, runner, storeLog, call, searchers, harvester>>

\* normalize(raw, trade_type, trade_country) at the present time
Normalize(raw, trade_type, trade_country) ==
    /\ normalizer.outputs = <<>>
    /\ normalizer' = [inputs |-> <<raw, trade_type, trade_country>>,
                      outputs |-> <<normalize(raw, trade_type, trade_country, now)>>]
    /\ UNCHANGED now
    /\ NormalizeFrame

\* normalize called again with the same arguments, at the present time
NormalizeAgain ==
    /\ Len(normalizer.outputs) = 1
    /\ normalizer' = [normalizer EXCEPT !.outputs =
            Append(@, normalize(normalizer.inputs[1], normalizer.inputs[2],
                                normalizer.inputs[3], now))]
    /\ UNCHANGED now
    /\ NormalizeFrame

\* a second passes on the clock datetime.utcnow() reads
ClockTick ==
    /\ now < MaxClock
    /\ now' = now + 1
    /\ UNCHANGED normalizer
    /\ NormalizeFrame

InitNormalize ==
    /\ upstream = <<>>
    /\ InitProcess(SmallCatalog)

NextNormalize ==
    \/ \E i \in 1..Len(AllShipments) : \E tt \in TradeTypes : \E tc \in TradeCountries :
           Normalize(AllShipments[i], tt, tc)
    \/ NormalizeAgain
    \/ ClockTick

SpecNormalize == InitNormalize /\ [][NextNormalize]_vars

\* C17: two normalizations of the same raw record with the same trade type,
\* trade country and reference data, at any two times, are equal in every field.
C17_NormalizeDeterministic ==
    Len(normalizer.outputs) = 2 => normalizer.outputs[1] = normalizer.outputs[2]


(***************************************************************************)
(* Claims on the record store's growth (specification Spec: every caller   *)
(* of store_records; the analytics routes only read get_records and        *)
(* _record_store and write nothing)                                        *)
(***************************************************************************)
IsPrefix(s, t) == Len(s) <= Len(t) /\ SubSeq(t, 1, Len(s)) = s

StoreFrame ==
    /\ UNCHANGED <<upstream, now, HARVEST_JOBS, bootSeen, bootPhase, bootIdx, bootPc,
                   budget, today, lastOp, normCount, engineNormCount, engineMet,
                   bootLog>>
    /\ UNCHANGED <<pager, tasks, task, client, tm, issued, elapsed, tokenLog>>
    /\ UNCHANGED <<fallback, runner, normalizer, call, searchers, harvester>>

\* store_records(hct_id, records)
StoreBatch(hct_id, records) ==
    /\ record_store' = store_records(record_store, hct_id, records)
    /\ Fits(record_store')
    /\ storeLog' = [hct_id |-> hct_id, records |-> records,
                    after |-> <<record_store'>>, again |-> FALSE]
    /\ StoreFrame

\* store_records with the arguments of the call just made
StoreAgain ==
    /\ storeLog.hct_id # None
    /\ ~storeLog.again
    /\ record_store' = store_records(record_store, storeLog.hct_id, storeLog.records)
    /\ Fits(record_store')
    /\ storeLog' = [storeLog EXCEPT !.again = TRUE]
    /\ StoreFrame

InitStore ==
    /\ upstream \in Upstreams
    /\ InitProcess(SmallCatalog)

NextStore ==
    \/ \E h \in HctIds : \E b \in SeqsUpTo(Emitted(h), MaxBatch) : StoreBatch(h, b)
    \/ StoreAgain

SpecStore == InitStore /\ [][NextStore]_vars

\* C18: store_records is idempotent: a second call with the same hct_id and
\* batch leaves the store equal to the state after the first call.
C18_StoreIdempotent ==
    storeLog.again => record_store = storeLog.after[1]

\* the dedup keys of the line items of declaration decl that the job's fetch
\* holds and that classify to hct_id
LineItems(job, decl, hct_id) ==
    {DedupKey(r) : r \in {x \in {FetchAll(job)[i] : i \in 1..Len(FetchAll(job))} :
                            /\ x.DECLARATION_NO = decl
                            /\ classify_by_hs_code(x.HS_CODE) = hct_id}}

\* the stored records of declaration decl
StoredOf(decl, hct_id) ==
    {i \in 1..Len(record_store[hct_id]) : record_store[hct_id][i].declaration_no = decl}

\* C20: two line items of one declaration get different record_ids, so after
\* run_harvest has stored a job's results every line item of the job's fetch
\* that the harvest dedup keeps and that classifies to an hct_id is in the
\* store (the store holds as many records of a declaration as the fetch has
\* line items of it).
C20_EveryLineItemStored ==
    (lastOp.op = "run_harvest" /\ lastOp.job \in JobNames(HARVEST_JOBS) /\ lastOp.ok)
      => LET job == SelectedJobs(lastOp.job, <<>>)[1]
             raws == FetchAll(job)
         IN  /\ \A i, j \in 1..Len(raws) :
                  (/\ Truthy(raws[i].DECLARATION_NO)
                   /\ raws[i].DECLARATION_NO = raws[j].DECLARATION_NO
                   /\ raws[i].ITEM_NO # raws[j].ITEM_NO)
                    => normalize(raws[i], job.trade_type, job.trade_country, now).record_id
                         # normalize(raws[j], job.trade_type, job.trade_country, now).record_id
             /\ \A d \in {x \in DeclNos : Truthy(x)} : \A h \in HctIds :
                  Cardinality(StoredOf(d, h)) >= Cardinality(LineItems(job, d, h))

(***************************************************************************)
(* SpecPrice: the price steps of NormalizationPipeline.normalize on one    *)
(* raw record (pipeline.py, steps 1, 2 and 4 to 9).  The floats of the     *)
(* code are exact fractions <<n, d>>, d > 0, kept in lowest terms; an       *)
(* optional value is <<>> (None) or <<v>>.                                  *)
(***************************************************************************)
RECURSIVE Gcd(_, _)
Gcd(a, b) == IF b = 0 THEN a ELSE Gcd(b, a % b)

Frac(n, d) == LET g == Gcd(n, d) IN <<n \div g, d \div g>>

FracMul(a, b) == Frac(a[1] * b[1], a[2] * b[2])

FracAdd(a, b) == Frac(a[1] * b[2] + b[1] * a[2], a[2] * b[2])

FracLess(a, b) == a[1] * b[2] < b[1] * a[2]

\* max(a - b, 0)
FracSubMax0(a, b) ==
    IF a[1] * b[2] <= b[1] * a[2] THEN <<0, 1>>
    ELSE Frac(a[1] * b[2] - b[1] * a[2], a[2] * b[2])

\* Python's x or y on optional numbers: None and 0 are falsy
OrNum(x, y) == IF x # <<>> /\ x[1] # 0 THEN x ELSE y

\* the keys of a raw record the price steps read
PriceRaw(fob_usd, assess_usd, value_usd, std_unit_usd, std_qty, unit_usd, qty, fob_inr, fx, item_inr, assess_inr, unit, std_unit, shipment_port, indian_port) ==
    [FOB_USD |-> fob_usd, TOTAL_ASSESS_USD |-> assess_usd,
     TOTAL_VALUE_USD |-> value_usd, STD_UNIT_PRICE_USD |-> std_unit_usd,
     STD_QUANTITY |-> std_qty, UNIT_PRICE_USD |-> unit_usd, QUANTITY |-> qty,
     FOB_INR |-> fob_inr, USD_EXCHANGE_RATE |-> fx, ITEM_RATE_INR |-> item_inr,
     STD_ITEM_RATE_INR |-> <<>>, TOTAL_ASSESSABLE_VALUE_INR |-> assess_inr,
     UNIT |-> unit, STD_UNIT |-> std_unit, PORT_OF_SHIPMENT |-> shipment_port,
     INDIAN_PORT |-> indian_port, FOREIGN_PORT |-> None]

\* one rung of the ladder: the value when it is a positive number
Rung(present, n, d, label) ==
    IF present /\ d # 0 /\ n > 0 THEN <<[price |-> <<Frac(n, d)>>, source |-> label]>>
    ELSE <<>>

\* _extract_price: the first rung that yields a positive number
extract_price(raw) ==
    LET total_usd == OrNum(raw.TOTAL_ASSESS_USD, raw.TOTAL_VALUE_USD)
        item_rate_inr == OrNum(raw.ITEM_RATE_INR, raw.STD_ITEM_RATE_INR)
        qty == raw.QUANTITY
        fx == raw.USD_EXCHANGE_RATE
        Val(x) == IF x = <<>> THEN 0 ELSE x[1]
        rungs ==
            Rung(raw.FOB_USD # <<>>, Val(raw.FOB_USD), 1, "FOB_USD")
            \o Rung(total_usd # <<>>, Val(total_usd), 1, "TOTAL_ASSESS_USD")
            \o Rung(raw.STD_UNIT_PRICE_USD # <<>> /\ raw.STD_QUANTITY # <<>>,
                    Val(raw.STD_UNIT_PRICE_USD) * Val(raw.STD_QUANTITY), 1,
                    "STD_UNIT_PRICE_x_QTY")
            \o Rung(raw.UNIT_PRICE_USD # <<>> /\ qty # <<>>,
                    Val(raw.UNIT_PRICE_USD) * Val(qty), 1, "UNIT_PRICE_x_QTY")
            \o Rung(raw.FOB_INR # <<>> /\ fx # <<>>, Val(raw.FOB_INR), Val(fx),
                    "FOB_INR_converted")
            \o Rung(item_rate_inr # <<>> /\ qty # <<>> /\ fx # <<>>,
                    Val(item_rate_inr) * Val(qty), Val(fx), "ITEM_RATE_INR_converted")
            \o Rung(raw.TOTAL_ASSESSABLE_VALUE_INR # <<>> /\ fx # <<>>,
                    Val(raw.TOTAL_ASSESSABLE_VALUE_INR), Val(fx),
                    "TOTAL_ASSESSABLE_VALUE_INR_converted")
    IN  IF rungs = <<>> THEN [price |-> <<>>, source |-> "MISSING"] ELSE rungs[1]

\* reference_tables.infer_incoterm: every INCOTERM_MAP entry and the default
\* give FOB to an export and CIF to an import
infer_incoterm(trade_type, trade_country) ==
    IF trade_type = "EXPORT" THEN "FOB" ELSE "CIF"

\* reference_tables.convert_to_mt on the units KGS, MTS, NOS and no unit
convert_to_mt(quantity, unit) ==
    IF quantity = <<>> \/ quantity[1] <= 0 THEN [mt |-> <<>>, status |-> "MISSING"]
    ELSE IF unit = None
         THEN IF quantity[1] > 5000
              THEN [mt |-> <<Frac(quantity[1], 1000)>>, status |-> "ASSUMED_KG"]
              ELSE IF quantity[1] < 200
                   THEN [mt |-> <<Frac(quantity[1], 1)>>, status |-> "ASSUMED_MT"]
                   ELSE [mt |-> <<>>, status |-> "UNRESOLVABLE"]
    ELSE IF unit = "KGS" THEN [mt |-> <<Frac(quantity[1], 1000)>>, status |-> "OK"]
    ELSE IF unit = "MTS" THEN [mt |-> <<Frac(quantity[1], 1)>>, status |-> "OK"]
    ELSE [mt |-> <<>>, status |-> "UNRESOLVABLE"]

\* reference_tables.lookup_freight on the ports of the model: USD per MT
lookup_freight(origin_port, dest_port) ==
    IF origin_port = None \/ dest_port = None THEN <<>>
    ELSE IF origin_port = "ABIDJAN" /\ dest_port = "TUTICORIN" THEN <<Frac(425, 10)>>
    ELSE <<>>

\* reference_tables.calc_insurance: 0.15 %, and 0.25 % more from a Gulf of
\* Guinea port
calc_insurance(cargo_value_usd, origin_port, dest_port) ==
    IF "ABIDJAN" \in {origin_port, dest_port}
    THEN FracMul(cargo_value_usd, Frac(40, 10000))
    ELSE FracMul(cargo_value_usd, Frac(15, 10000))

\* reference_tables.lookup_port_charges: USD per MT
lookup_port_charges(port) ==
    IF port = None THEN Frac(0, 1)
    ELSE IF port = "TUTICORIN" THEN Frac(47, 10)
    ELSE IF port = "ABIDJAN" THEN Frac(55, 10)
    ELSE Frac(4, 1)

\* Python's x or y on optional strings
OrStr(x, y) == IF x # None /\ x # "" THEN x ELSE y

\* normalize, steps 1, 2 and 4 to 9: the quantity and price fields of the
\* record it returns
normalize_price(raw, trade_type, trade_country) ==
    LET is_export == trade_type = "EXPORT"
        incoterm == infer_incoterm(trade_type, trade_country)
        price_usd == extract_price(raw).price
        first == convert_to_mt(OrNum(raw.QUANTITY, raw.STD_QUANTITY),
                               OrStr(raw.UNIT, raw.STD_UNIT))
        converted ==
            IF first.status = "UNRESOLVABLE" /\ OrNum(raw.STD_QUANTITY, <<>>) # <<>>
               /\ OrStr(raw.STD_UNIT, None) # None
            THEN convert_to_mt(raw.STD_QUANTITY, raw.STD_UNIT)
            ELSE first
        quantity_mt == converted.mt
        origin_port == IF is_export THEN raw.INDIAN_PORT
                       ELSE OrStr(raw.PORT_OF_SHIPMENT, raw.FOREIGN_PORT)
        dest_port == IF is_export THEN raw.FOREIGN_PORT ELSE raw.INDIAN_PORT
        freight_used == lookup_freight(origin_port, dest_port)
        insurance_used == calc_insurance(price_usd[1], origin_port, dest_port)
        port_charges_used == lookup_port_charges(dest_port)
        has_quantity == quantity_mt # <<>> /\ quantity_mt[1][1] > 0
        deductions ==
            IF freight_used # <<>> /\ freight_used[1][1] # 0 /\ has_quantity
            THEN FracAdd(FracAdd(FracMul(freight_used[1], quantity_mt[1]), insurance_used),
                         FracMul(port_charges_used, quantity_mt[1]))
            ELSE FracAdd(FracAdd(IF freight_used = <<>> THEN Frac(0, 1) ELSE freight_used[1],
                                 insurance_used),
                         port_charges_used)
        fob_usd ==
            IF incoterm = "FOB" /\ price_usd # <<>> THEN price_usd
            ELSE IF incoterm = "CIF" /\ price_usd # <<>>
                 THEN <<FracSubMax0(price_usd[1], deductions)>>
                 ELSE price_usd
        fob_source ==
            IF incoterm = "FOB" /\ price_usd # <<>> THEN "direct_fob"
            ELSE IF incoterm = "CIF" /\ price_usd # <<>> THEN "derived_from_cif"
                 ELSE "assumed_unknown_basis"
        fob_per_mt ==
            IF fob_usd # <<>> /\ has_quantity
            THEN <<Frac(fob_usd[1][1] * quantity_mt[1][2], fob_usd[1][2] * quantity_mt[1][1])>>
            ELSE <<>>
        price_status ==
            IF fob_usd = <<>> \/ fob_usd[1][1] = 0 THEN "MISSING"
            ELSE IF fob_per_mt # <<>> /\ FracLess(fob_per_mt[1], Frac(10, 1))
                 THEN "SUSPECT_LOW"
            ELSE IF fob_per_mt # <<>> /\ FracLess(Frac(50000, 1), fob_per_mt[1])
                 THEN "SUSPECT_HIGH"
            ELSE "NORMAL"
    IN  [quantity_mt |-> quantity_mt, unit_status |-> converted.status,
         fob_usd_total |-> fob_usd, fob_usd_per_mt |-> fob_per_mt,
         declared_incoterm |-> incoterm, price_source |-> fob_source,
         price_status |-> price_status]

\* the pure-function specifications change call and nothing else
CallFrame ==
    /\ UNCHANGED storeVars
    /\ UNCHANGED <<pager, tasks, task, client, tm, issued, elapsed, tokenLog>>
    /\ UNCHANGED <<fallback, runner, normalizer, storeLog, searchers, harvester>>

\* normalize(raw, trade_type, trade_country): its quantity and price fields
NormalizePrice(raw, trade_type, trade_country) ==
    /\ call.fn = "none"
    /\ call' = [fn |-> "normalize", args |-> <<raw, trade_type, trade_country>>,
                result |-> normalize_price(raw, trade_type, trade_country)]
    /\ CallFrame

OptUsd(v) == {<<>>, <<0>>, <<v>>}

Opt(v) == {<<>>, <<v>>}

PriceUnits == {None, "KGS", "MTS", "NOS"}

\* the port pairs of an import: a route of FREIGHT_RATES, or no port named
PortPairs == {<<"ABIDJAN", "TUTICORIN">>, <<None, None>>}

InitPrice ==
    /\ upstream = <<>>
    /\ InitProcess(SmallCatalog)

NextPrice ==
    /\ call.fn = "none"
    /\ \E fob_usd \in OptUsd(500), assess_usd \in OptUsd(600), value_usd \in Opt(700),
          std_unit_usd \in Opt(2), std_qty \in Opt(5), unit_usd \in Opt(3), qty \in Opt(4),
          fob_inr \in Opt(8000), fx \in OptUsd(80), item_inr \in Opt(160),
          assess_inr \in Opt(4000), unit \in PriceUnits, std_unit \in {None, "MTS"},
          ports \in PortPairs, trade_type \in TradeTypes :
           NormalizePrice(PriceRaw(fob_usd, assess_usd, value_usd, std_unit_usd, std_qty,
                                   unit_usd, qty, fob_inr, fx, item_inr, assess_inr, unit,
                                   std_unit, ports[1], ports[2]),
                          trade_type, "INDIA")

SpecPrice == InitPrice /\ [][NextPrice]_vars

\* the rung of the USD price ladder that fires on a raw record: the first of
\* the seven, in priority order, that yields a positive number
FiredRung(raw) == extract_price(raw).source

\* C21: the canonical record's price_source names the rung of the USD price
\* ladder that fired (the first of the seven rungs, in priority order, that
\* yields a positive number, e.g. FOB_USD), and is MISSING when none did.
C21_PriceSourceNamesRung ==
    call.fn = "normalize" => call.result.price_source = FiredRung(call.args[1])

\* C22: price_status is SUSPECT_LOW exactly when fob_usd_per_mt is known and
\* below 10, SUSPECT_HIGH exactly when it is known and above 50000, and
\* NORMAL otherwise when fob_usd_per_mt is known.
C22_PriceStatusThresholds ==
    call.fn = "normalize" =>
        LET per_mt == call.result.fob_usd_per_mt
            low == per_mt # <<>> /\ FracLess(per_mt[1], <<10, 1>>)
            high == per_mt # <<>> /\ FracLess(<<50000, 1>>, per_mt[1])
        IN  /\ call.result.price_status = "SUSPECT_LOW" <=> low
            /\ call.result.price_status = "SUSPECT_HIGH" <=> high
            /\ per_mt # <<>> /\ ~low /\ ~high => call.result.price_status = "NORMAL"

(***************************************************************************)
(* SpecMedian: one call of ImpliedPriceCurve._weighted_median              *)
(* (core/intelligence/ipc.py) on any short list of prices and weights.     *)
(* Prices and weights are whole numbers; cumulative >= total / 2 is        *)
(* 2 * cumulative >= total.                                                *)
(***************************************************************************)
MaxPrices == 3

MaxPrice == 3

MaxWeight == 3

\* the order of Python's tuples: by value, then by weight
PairLeq(a, b) == a[1] < b[1] \/ (a[1] = b[1] /\ a[2] <= b[2])

RECURSIVE InsertPair(_, _)
InsertPair(p, s) ==
    IF s = <<>> THEN <<p>>
    ELSE IF PairLeq(p, s[1]) THEN <<p>> \o s
    ELSE <<s[1]>> \o InsertPair(p, Tail(s))

\* leaves the pairs in the order of the arguments
SortedPairsNot(s) == s

\* sorted(zip(values, weights))
RECURSIVE SortedPairs(_)
SortedPairs(s) == IF s = <<>> THEN <<>> ELSE InsertPair(s[1], SortedPairs(Tail(s)))

RECURSIVE SumSeq(_)
SumSeq(s) == IF s = <<>> THEN 0 ELSE s[1] + SumSeq(Tail(s))

\* the for loop of _weighted_median: <<value>> when it returns, <<>> when
\* it runs out
RECURSIVE MedianWalk(_, _, _)
MedianWalk(pairs, cumulative, total) ==
    IF pairs = <<>> THEN <<>>
    ELSE IF 2 * (cumulative + pairs[1][2]) >= total THEN <<pairs[1][1]>>
    ELSE MedianWalk(Tail(pairs), cumulative + pairs[1][2], total)

weighted_median(values, weights) ==
    IF values = <<>> THEN 0
    ELSE IF Len(values) = 1 THEN values[1]
    ELSE LET pairs == SortedPairs([i \in 1..Len(values) |-> <<values[i], weights[i]>>])
             found == MedianWalk(pairs, 0, SumSeq(weights))
         IN  IF found = <<>> THEN pairs[Len(pairs)][1] ELSE found[1]

WeightedMedian(values, weights) ==
    /\ call.fn = "none"
    /\ call' = [fn |-> "_weighted_median", args |-> <<values, weights>>,
                result |-> weighted_median(values, weights)]
    /\ CallFrame

InitMedian ==
    /\ upstream = <<>>
    /\ InitProcess(SmallCatalog)

NextMedian ==
    /\ call.fn = "none"
    /\ \E n \in 0..MaxPrices :
         \E values \in [1..n -> 1..MaxPrice], weights \in [1..n -> 1..MaxWeight] :
           WeightedMedian(values, weights)

SpecMedian == InitMedian /\ [][NextMedian]_vars

\* the weight of the prices of a call that satisfy Keep
WeightWhere(values, weights, Keep(_)) ==
    SumSeq([i \in 1..Len(values) |-> IF Keep(values[i]) THEN weights[i] ELSE 0])

\* C23: for every non-empty list of prices with positive weights, the price
\* p the weighted median returns has at most half the total weight strictly
\* below it and at least half the total weight at or below it.
C23_WeightedMedianSplits ==
    call.fn = "_weighted_median" /\ call.args[1] # <<>> =>
        LET values == call.args[1]
            weights == call.args[2]
            p == call.result
            Below(v) == v < p
            AtMost(v) == v <= p
        IN  /\ 2 * WeightWhere(values, weights, Below) <= SumSeq(weights)
            /\ SumSeq(weights) <= 2 * WeightWhere(values, weights, AtMost)

\* three prices given out of order, whose median is neither the first given
\* nor the smallest
C23_Witness ==
    /\ call.fn = "_weighted_median"
    /\ Len(call.args[1]) = 3
    /\ call.args[1][1] > call.args[1][2]
    /\ call.result # call.args[1][1]
    /\ \E i \in 1..3 : call.args[1][i] < call.result

(***************************************************************************)
(* SpecFvi: one call of FlowVelocityIndex.compute_seasonally_adjusted       *)
(* (core/intelligence/fvi.py), which calls compute.  A record carries the  *)
(* window its trade_date falls in (the recent and the baseline window are  *)
(* disjoint) and its quantity_mt; the target date is its month and the     *)
(* month 30 days before.  A ratio is a whole number of ten-thousandths,    *)
(* as round(x, 4) leaves it; a monthly weight is in hundredths.            *)
(***************************************************************************)
FviWindows == {"recent", "baseline", "outside"}

FviQuantities == {<<>>, <<0>>, <<7>>, <<9>>, <<10>>, <<11>>, <<13>>, <<14>>}

FviRecords == [window : FviWindows, quantity_mt : FviQuantities]

MaxFviRecords == 2

\* SEASONAL_PATTERNS["HCT-0801-RCN-INSHELL"]["monthly_weights"]
RcnMonthlyWeights == <<6, 8, 14, 16, 14, 10, 7, 5, 4, 5, 6, 5>>

\* SEASONAL_PATTERNS.get(hct_id): one commodity with a pattern, one without
SeasonalHcts == {"HCT-0801-RCN-INSHELL", "HCT-0000-NONE"}

\* round(n / d, 4), in ten-thousandths
Round4(n, d) == (2 * 10000 * n + d) \div (2 * d)

\* _sum_volume over one window
RECURSIVE sum_volume(_, _)
sum_volume(records, window) ==
    IF records = <<>> THEN 0
    ELSE LET r == records[1]
             qty == r.quantity_mt
         IN  (IF r.window = window /\ qty # <<>> /\ qty[1] > 0 THEN qty[1] ELSE 0)
             + sum_volume(Tail(records), window)

\* _interpret
interpret(fvi) ==
    IF fvi = <<>> THEN "UNKNOWN"
    ELSE IF fvi[1] > 13000 THEN "STRONG_ACCELERATION"
    ELSE IF fvi[1] > 11000 THEN "MODERATE_ACCELERATION"
    ELSE IF fvi[1] >= 9000 THEN "NORMAL"
    ELSE IF fvi[1] >= 7000 THEN "MODERATE_DECELERATION"
    ELSE "SEVERE_DECELERATION"

\* compute: fvi_raw, signal and the two volumes
fvi_compute(records) ==
    LET recent_vol == sum_volume(records, "recent")
        baseline_vol == sum_volume(records, "baseline")
        fvi_raw == IF baseline_vol <= 0 THEN <<>> ELSE <<Round4(recent_vol, baseline_vol)>>
    IN  [fvi_raw |-> fvi_raw,
         signal |-> IF records = <<>> THEN "NO_DATA"
                    ELSE IF baseline_vol <= 0 THEN "NO_BASELINE" ELSE interpret(fvi_raw),
         volume_recent_mt |-> recent_vol, volume_baseline_mt |-> baseline_vol]

\* compute_seasonally_adjusted; signal_adjusted is <<>> where the returned
\* dict has no such key
compute_seasonally_adjusted(records, hct_id, current_month, baseline_month) ==
    LET raw_result == fvi_compute(records)
        With(fvi_adjusted, signal_adjusted) ==
            [fvi_raw |-> raw_result.fvi_raw, signal |-> raw_result.signal,
             volume_recent_mt |-> raw_result.volume_recent_mt,
             volume_baseline_mt |-> raw_result.volume_baseline_mt,
             fvi_adjusted |-> fvi_adjusted, signal_adjusted |-> signal_adjusted]
        current_weight == RcnMonthlyWeights[current_month]
        baseline_weight == RcnMonthlyWeights[baseline_month]
        \* seasonal_factor = factor[1] / factor[2]
        factor == IF baseline_weight <= 0 THEN <<1, 1>>
                  ELSE <<current_weight, baseline_weight>>
        fvi_adjusted ==
            IF factor[1] > 0
            THEN <<(2 * raw_result.fvi_raw[1] * factor[2] + factor[1]) \div (2 * factor[1])>>
            ELSE <<>>
    IN  IF raw_result.fvi_raw = <<>> THEN With(<<>>, <<>>)
        ELSE IF hct_id # "HCT-0801-RCN-INSHELL" THEN With(raw_result.fvi_raw, <<>>)
        ELSE With(fvi_adjusted,
                  <<IF fvi_adjusted # <<>> /\ fvi_adjusted[1] # 0
                    THEN interpret(fvi_adjusted) ELSE "UNKNOWN">>)

ComputeSeasonallyAdjusted(records, hct_id, current_month, baseline_month) ==
    /\ call.fn = "none"
    /\ call' = [fn |-> "compute_seasonally_adjusted",
                args |-> <<records, hct_id, current_month, baseline_month>>,
                result |-> compute_seasonally_adjusted(records, hct_id, current_month,
                                                       baseline_month)]
    /\ CallFrame

\* the month 30 days before a day of month m: m itself (from the 31st) or
\* the month before
MonthBefore(m) == {m, IF m = 1 THEN 12 ELSE m - 1}

InitFvi ==
    /\ upstream = <<>>
    /\ InitProcess(SmallCatalog)

NextFvi ==
    /\ call.fn = "none"
    /\ \E records \in SeqsUpTo(FviRecords, MaxFviRecords), hct_id \in SeasonalHcts,
          current_month \in 1..12 :
         \E baseline_month \in MonthBefore(current_month) :
           ComputeSeasonallyAdjusted(records, hct_id, current_month, baseline_month)

SpecFvi == InitFvi /\ [][NextFvi]_vars

\* the threshold class of a ratio >= 0, in ten-thousandths
ThresholdClass(ratio) ==
    IF ratio > 13000 THEN "STRONG_ACCELERATION"
    ELSE IF ratio > 11000 THEN "MODERATE_ACCELERATION"
    ELSE IF ratio >= 9000 THEN "NORMAL"
    ELSE IF ratio >= 7000 THEN "MODERATE_DECELERATION"
    ELSE "SEVERE_DECELERATION"

\* C24: whenever the baseline-window volume is positive, the raw signal and
\* the seasonally adjusted signal are each the threshold class of their
\* ratio, for every ratio >= 0 (0, a recent window without volume, being
\* SEVERE_DECELERATION); NO_BASELINE is reported only when the baseline
\* volume is 0.
C24_SignalsAreThresholdClasses ==
    call.fn = "compute_seasonally_adjusted" /\ call.args[1] # <<>> =>
        LET baseline_vol == sum_volume(call.args[1], "baseline")
            res == call.result
        IN  /\ baseline_vol > 0 => res.signal = ThresholdClass(res.fvi_raw[1])
            /\ baseline_vol > 0 /\ res.signal_adjusted # <<>> /\ res.fvi_adjusted # <<>>
                 => res.signal_adjusted[1] = ThresholdClass(res.fvi_adjusted[1])
            /\ res.signal = "NO_BASELINE" => baseline_vol = 0

(***************************************************************************)
(* SpecShares: one call of CounterpartyIntelligence.compute_market_shares   *)
(* (core/intelligence/counterparty.py) with no period filter.  Volumes are *)
(* whole tonnes; a market_share_pct is a whole number of tenths of a       *)
(* percent, as round(x, 1) leaves it.                                      *)
(***************************************************************************)
MaxShareRecords == 3

PartyNames == {"OLAM NIGERIA", "OLAM GHANA", "ACME", "ZEN"}

ShareQuantities == {<<>>, <<0>>, <<1>>, <<2>>, <<3>>}

ShareRecords == [consignee : PartyNames, quantity_mt : ShareQuantities]

\* resolve_entity: a name holding an alias of ENTITY_ALIASES is its
\* canonical entity, any other name is itself
resolve_entity(name) ==
    IF name = "" THEN "UNKNOWN"
    ELSE IF name \in {"OLAM NIGERIA", "OLAM GHANA"} THEN "Olam Group"
    ELSE name

\* the keys of entity_volumes in the order the loop first adds to them
RECURSIVE EntityOrder(_, _)
EntityOrder(records, seen) ==
    IF records = <<>> THEN seen
    ELSE LET entity == resolve_entity(records[1].consignee)
             qty == IF records[1].quantity_mt = <<>> THEN 0 ELSE records[1].quantity_mt[1]
         IN  EntityOrder(Tail(records),
                         IF qty > 0 /\ \A i \in 1..Len(seen) : seen[i] # entity
                         THEN Append(seen, entity) ELSE seen)

\* entity_volumes[entity]
RECURSIVE EntityVolume(_, _)
EntityVolume(records, entity) ==
    IF records = <<>> THEN 0
    ELSE LET qty == IF records[1].quantity_mt = <<>> THEN 0 ELSE records[1].quantity_mt[1]
         IN  (IF qty > 0 /\ resolve_entity(records[1].consignee) = entity THEN qty ELSE 0)
             + EntityVolume(Tail(records), entity)

\* one step of the stable sort by volume, largest first
RECURSIVE InsertByVolume(_, _)
InsertByVolume(item, s) ==
    IF s = <<>> THEN <<item>>
    ELSE IF item[2] >= s[1][2] THEN <<item>> \o s
    ELSE <<s[1]>> \o InsertByVolume(item, Tail(s))

\* sorted(entity_volumes.items(), key=lambda x: x[1], reverse=True)
RECURSIVE SortedByVolume(_)
SortedByVolume(items) ==
    IF items = <<>> THEN <<>>
    ELSE InsertByVolume(items[1], SortedByVolume(Tail(items)))

\* round(vol / total_volume * 100, 1), in tenths of a percent
SharePct(vol, total_volume) ==
    IF total_volume > 0 THEN (2 * 1000 * vol + total_volume) \div (2 * total_volume) ELSE 0

compute_market_shares(records, top_n) ==
    LET order == EntityOrder(records, <<>>)
        items == [i \in 1..Len(order) |-> <<order[i], EntityVolume(records, order[i])>>]
        total_volume == SumSeq([i \in 1..Len(items) |-> items[i][2]])
        sorted_entities == SortedByVolume(items)
        top_entities == SubSeq(sorted_entities, 1,
                               IF Len(sorted_entities) < top_n THEN Len(sorted_entities)
                               ELSE top_n)
    IN  [total_volume_mt |-> total_volume,
         unique_entities |-> Len(order),
         top_entities |-> [i \in 1..Len(top_entities) |->
                              [entity |-> top_entities[i][1],
                               volume_mt |-> top_entities[i][2],
                               market_share_pct |-> SharePct(top_entities[i][2],
                                                             total_volume)]]]

ComputeMarketShares(records, top_n) ==
    /\ call.fn = "none"
    /\ call' = [fn |-> "compute_market_shares", args |-> <<records, top_n>>,
                result |-> compute_market_shares(records, top_n)]
    /\ CallFrame

InitShares ==
    /\ upstream = <<>>
    /\ InitProcess(SmallCatalog)

NextShares ==
    /\ call.fn = "none"
    /\ \E records \in SeqsUpTo(ShareRecords, MaxShareRecords), top_n \in {2, 20} :
         ComputeMarketShares(records, top_n)

SpecShares == InitShares /\ [][NextShares]_vars

\* C25: for every record set, compute_market_shares returns top_entities
\* sorted weakly decreasing by volume_mt, and the reported market_share_pct
\* values of top_entities sum to at most 100.
C25_SharesSortedAndBounded ==
    call.fn = "compute_market_shares" =>
        LET top == call.result.top_entities
        IN  /\ \A i \in 1..Len(top) - 1 : top[i].volume_mt >= top[i + 1].volume_mt
            /\ SumSeq([i \in 1..Len(top) |-> top[i].market_share_pct]) <= 1000

(***************************************************************************)
(* SpecHarvest: the harvests' jobs, page request by page request.  A       *)
(* bootstrap job (main.py, _run_job) asks can_harvest, runs the job and    *)
(* calls record_call("harvest"); a job of run_harvest or of                *)
(* harvest_by_commodity_name (api/routes/data.py) runs with no call to the *)
(* tracker.  Each job is one trade_shipment_all call (the pager of         *)
(* SpecPages); run_job turns an exception into a FAILED summary.  The      *)
(* records a job stores are in Spec.                                       *)
(***************************************************************************)
MaxHarvestJobs == 2

HarvestKinds == {"bootstrap", "run_harvest", "harvest_by_commodity_name"}

HarvestFrame ==
    /\ UNCHANGED <<upstream, now, record_store, HARVEST_JOBS, bootSeen, bootPhase,
                   bootIdx, bootPc, today, lastOp, normCount, engineNormCount,
                   engineMet, bootLog>>
    /\ UNCHANGED <<tasks, task, client, tm, issued, elapsed, tokenLog>>
    /\ UNCHANGED <<fallback, runner, normalizer, storeLog, call, searchers>>

\* a job starts, up to its first page request; a bootstrap job that
\* can_harvest() refuses is skipped
HarvestJobStarts(kind) ==
    /\ harvester.pc = "idle"
    /\ harvester.jobs < MaxHarvestJobs
    /\ pager.pc = "idle"
    /\ budget' = IF kind = "bootstrap" THEN can_harvest(budget, today).budget ELSE budget
    /\ IF kind = "bootstrap" /\ ~can_harvest(budget, today).ok
       THEN /\ harvester' = [harvester EXCEPT !.jobs = @ + 1]
            /\ UNCHANGED pager
       ELSE /\ harvester' = [harvester EXCEPT !.pc = "running", !.kind = kind]
            /\ pager' = [NewPager EXCEPT !.pc = "await", !.requested = <<1>>]
    /\ HarvestFrame

\* engine.run_job returns; the bootstrap calls budget.record_call("harvest")
HarvestJobReturns ==
    /\ harvester.pc = "running"
    /\ pager.pc \in {"done", "raised"}
    /\ budget' = IF harvester.kind = "bootstrap"
                 THEN record_call(budget, today, "harvest") ELSE budget
    /\ harvester' = [pc |-> "idle", kind |-> None, jobs |-> harvester.jobs + 1,
                     pages |-> harvester.pages + Len(pager.requested)]
    /\ pager' = NewPager
    /\ HarvestFrame

InitHarvest ==
    /\ upstream = <<>>
    /\ InitProcess(SmallCatalog)

NextHarvest ==
    \/ \E kind \in HarvestKinds : HarvestJobStarts(kind)
    \/ \E k \in 0..MaxPageRecs : \E f1 \in TotalField : \E f2 \in TotalField :
         \E f3 \in TotalField : FirstPageReturns(k, f1, f2, f3)
    \/ \E k \in 0..MaxPageRecs : LaterPageReturns(k)
    \/ PageRaises
    \/ HarvestJobReturns

SpecHarvest == InitHarvest /\ [][NextHarvest]_vars

\* C26: each upstream page request counts as one call against the daily
\* budget: after any harvest job (bootstrap, run_harvest,
\* harvest_by_commodity_name) the tracker's total and harvest counters equal
\* the number of page requests the day's harvests issued, so that number
\* never exceeds the harvest budget of 60.
C26_PageRequestsCounted ==
    harvester.pc = "idle" =>
        /\ budget.harvest_calls_today = harvester.pages
        /\ budget.calls_today = harvester.pages
        /\ harvester.pages <= HARVEST_BUDGET

(***************************************************************************)
(* SpecSearch: concurrent counterparty_search requests                     *)
(* (api/routes/intelligence.py) that reach step 2 with fewer than 10 local *)
(* records.  The requests are coroutines on one event loop: a request runs *)
(* from can_search() into client.trade_shipment, where it may suspend      *)
(* before its POST (token refresh, interval wait) and does suspend on the  *)
(* POST; record_call("search") runs when the response is back.  Requests   *)
(* are counted by position, not named.                                     *)
(***************************************************************************)
MaxSearchers == 2

SearchFrame ==
    /\ UNCHANGED <<upstream, now, record_store, HARVEST_JOBS, bootSeen, bootPhase,
                   bootIdx, bootPc, today, lastOp, normCount, engineNormCount,
                   engineMet, bootLog>>
    /\ UNCHANGED <<pager, tasks, task, client, tm, issued, elapsed, tokenLog>>
    /\ UNCHANGED <<fallback, runner, normalizer, storeLog, call, harvester>>

\* if len(local_records) < 10 and budget.can_search(): ... up to the first
\* suspension inside client.trade_shipment
SearchChecks ==
    /\ searchers.checked + searchers.awaiting < MaxSearchers
    /\ LET chk == can_search(budget, today)
       IN  /\ chk.ok
           /\ budget' = chk.budget
           /\ searchers' = [searchers EXCEPT !.checked = @ + 1]
    /\ SearchFrame

\* the request's POST is sent to the upstream
SearchIssued ==
    /\ searchers.checked > 0
    /\ searchers' = [checked |-> searchers.checked - 1,
                     awaiting |-> searchers.awaiting + 1,
                     atCap |-> searchers.atCap
                               \/ maybe_reset(budget, today).search_calls_today
                                    >= SEARCH_BUDGET]
    /\ UNCHANGED budget
    /\ SearchFrame

\* response = await client.trade_shipment(payload); budget.record_call("search")
SearchReturns ==
    /\ searchers.awaiting > 0
    /\ searchers' = [searchers EXCEPT !.awaiting = @ - 1]
    /\ budget' = record_call(budget, today, "search")
    /\ SearchFrame

\* client.trade_shipment raises: except Exception: pass
SearchRaises ==
    /\ searchers.awaiting > 0
    /\ searchers' = [searchers EXCEPT !.awaiting = @ - 1]
    /\ UNCHANGED budget
    /\ SearchFrame

InitSearch ==
    /\ upstream = <<>>
    /\ InitProcess(SmallCatalog)

NextSearch ==
    \/ SearchChecks
    \/ SearchIssued
    \/ SearchReturns
    \/ SearchRaises

SpecSearch == InitSearch /\ [][NextSearch]_vars

\* C27: in every reachable state the search sub-counter is at most its cap
\* (40) and no on-demand upstream search has been issued while the counter
\* was at the cap, for every interleaving of concurrent counterparty_search
\* requests.
C27_SearchCapHolds ==
    /\ budget.search_calls_today <= SEARCH_BUDGET
    /\ ~searchers.atCap

(***************************************************************************)
(* Claims on _request (specifications SpecToken, SpecRetry and SpecPages)  *)
(***************************************************************************)
\* C28: a 401 received for a request that was sent with token T invalidates
\* only T: when another task has already refreshed the cache to a newer
\* token, the 401 handler of the older request neither discards that token
\* nor starts a further OAuth refresh.
C28_Stale401KeepsNewToken ==
    [][\A t \in tasks :
         (Response401(t) /\ tm.token # NoToken /\ tm.token # task[t].token)
            => /\ tm'.token = tm.token
               /\ tm'.holder # t
               /\ task'[t].pc \notin {"refreshing", "lockwait"}]_vars

\* one observed call, with an event loop that keeps running and an upstream
\* (or the 60 s timeout of the HTTP client) that ends every request
SpecRetryLive == InitRetry /\ [][NextRetry]_vars /\ WF_vars(NextRetry)

\* the POSTs the present call of task t has sent to its endpoint: one per
\* faulty answer, and the one in flight or answered last
Posts(t) ==
    Len(task[t].answers)
    + (IF task[t].pc = "inflight"
          \/ (task[t].pc = "idle" /\ task[t].result \in {"ok", "status"})
       THEN 1 ELSE 0)

\* C29: every _request call terminates: whatever the upstream answers (401,
\* 429, transport errors, other statuses, to some or to all attempts), the
\* call sends at most 4 POSTs and then returns a response or raises, and its
\* semaphore permit is released.
C29_RequestTerminates ==
    /\ [](\A t \in tasks :
            /\ Posts(t) <= MaxAttempts
            /\ task[t].pc = "idle" => client[t].semaphore = API_MAX_CONCURRENT_REQUESTS)
    /\ (task[1].pc # "idle") ~> (task[1].pc = "idle" /\ task[1].result # "none")

\* a call that sent four POSTs, every one answered 401 or 429, and is over
C29_Witness ==
    /\ task[1].pc = "idle"
    /\ task[1].result = "exhausted"
    /\ Len(task[1].answers) = MaxAttempts
    /\ "401" \in {task[1].answers[i] : i \in 1..Len(task[1].answers)}
    /\ "429" \in {task[1].answers[i] : i \in 1..Len(task[1].answers)}
    /\ client[1].semaphore = API_MAX_CONCURRENT_REQUESTS

\* page 1's response carried no total: each of the three fields is absent
\* or 0
NoTotalReported ==
    /\ pager.reported # <<>>
    /\ \A i \in 1..3 : pager.reported[i] = <<>> \/ pager.reported[i][1] = 0

\* C30: when the response to page 1 carries none of the three total-count
\* fields (or a count of 0), trade_shipment_all issues exactly one page
\* request and returns only page 1's records, however many records page 1
\* held.
C30_NoTotalStopsAfterPageOne ==
    NoTotalReported =>
        /\ pager.pc = "done"
        /\ pager.requested = <<1>>
        /\ pager.all_records = PageRecords(1, pager.lens[1])

\* a first page full of records and without a total, after which the call
\* returned
C30_Witness ==
    /\ NoTotalReported
    /\ pager.pc = "done"
    /\ pager.lens = <<MaxPageRecs>>
    /\ Len(pager.all_records) = MaxPageRecs
====
